---- MODULE Spec2Model ----
(***************************************************************************)
(* Plan/Command lifecycle pipeline of the voxel AI orchestrator:           *)
(* identifier generator, planning stage, plan-command registry and         *)
(* execution stage.                                                        *)
(*                                                                         *)
(* Python strings that take part in identifier construction are modelled   *)
(* as sequences of one-character strings, so that formatting, joining and  *)
(* split('_') are computed and not assumed.                                *)
(***************************************************************************)
EXTENDS Integers, Sequences, FiniteSets, TLC

VARIABLES
    api_key,                 \* os.getenv("OPENAI_API_KEY") is set
    planner_client,          \* planner.openai_client is not None
    executor_client,         \* executor.openai_client is not None
    session_goal_sequences,  \* planner._session_goal_sequences
    plan_calls,              \* plan_async coroutines, by call number
    goal_log,                \* values returned by _next_goal_sequence, in call order
    conv_in,                 \* arguments of one _convert_simple_to_full_response call
    conv_out,                \* its return value
    registry_mappings,       \* PlanCommandRegistry.mappings
    registry_approved_plans, \* PlanCommandRegistry._approved_plans
    reg_ret,                 \* last registry operation and its return value
    exec_call,               \* the /permission request being handled
    exec_count,              \* number of /permission requests started
    batch_log,               \* command batches returned so far, in order
    enrich_in,               \* a validated reply and the approval it answers
    enrich_out,              \* the command list built from it
    id_in,                   \* arguments given to the identifier generator
    id_out,                  \* the identifiers it returned
    store_sessions,          \* SessionManager.sessions
    store_clock,             \* time.time() and datetime.now()
    store_log,               \* messages appended to each session since it was created or cleared
    store_ret,               \* last session store operation and its return value
    closer_in,               \* a registry and the status reports of one event batch
    closer_out,              \* the history entries written for them
    ev_req,                  \* the /events requests, one per plan_async call
    ev_history,              \* session id -> the entries appended to its history
    batch_in,                \* an event batch given to the converter
    batch_out,               \* the history entries written for it
    ep_clears                \* the /session/clear requests served, with the number of goals minted before

vars == <<api_key, planner_client, executor_client, session_goal_sequences,
          plan_calls, goal_log, conv_in, conv_out, registry_mappings,
          registry_approved_plans, reg_ret, exec_call, exec_count, batch_log,
          enrich_in, enrich_out,
          id_in, id_out,
          store_sessions, store_clock, store_log, store_ret,
          closer_in, closer_out,
          ev_req, ev_history,
          batch_in, batch_out,
          ep_clears>>

planner_vars == <<planner_client, session_goal_sequences, plan_calls, goal_log>>
conv_vars == <<conv_in, conv_out>>
registry_vars == <<registry_mappings, registry_approved_plans>>
exec_vars == <<executor_client, exec_call, exec_count, batch_log>>
enrich_vars == <<enrich_in, enrich_out>>
ids_vars == <<id_in, id_out>>
store_vars == <<store_sessions, store_clock, store_log, store_ret>>
closer_vars == <<closer_in, closer_out>>
events_vars == <<ev_req, ev_history>>
batch_vars == <<batch_in, batch_out>>
clear_vars == <<ep_clears>>
\* what each component leaves alone
outside_conv == <<api_key, planner_vars, registry_vars, reg_ret, exec_vars, enrich_vars,
    ids_vars,
    store_vars,
    closer_vars,
    events_vars,
    batch_vars,
    clear_vars>>
outside_planner == <<api_key, conv_vars, registry_vars, reg_ret, exec_vars, enrich_vars,
    ids_vars,
    store_vars,
    closer_vars,
    events_vars,
    batch_vars,
    clear_vars>>
outside_registry == <<api_key, conv_vars, planner_vars, exec_vars, enrich_vars,
    ids_vars,
    store_vars,
    closer_vars,
    events_vars,
    batch_vars,
    clear_vars>>
outside_executor == <<api_key, conv_vars, planner_vars, reg_ret, enrich_vars,
    ids_vars,
    store_vars,
    closer_vars,
    events_vars,
    batch_vars,
    clear_vars>>
outside_enrich == <<api_key, conv_vars, planner_vars, registry_vars, reg_ret, exec_vars,
    ids_vars,
    store_vars,
    closer_vars,
    events_vars,
    batch_vars,
    clear_vars>>
outside_ids == <<api_key, reg_ret, planner_vars, conv_vars, registry_vars, exec_vars,
    enrich_vars,
    store_vars,
    closer_vars,
    events_vars,
    batch_vars,
    clear_vars>>
outside_store == <<api_key, reg_ret, planner_vars, conv_vars, registry_vars, exec_vars,
    enrich_vars, ids_vars,
    closer_vars,
    events_vars,
    batch_vars,
    clear_vars>>
outside_closer == <<api_key, reg_ret, planner_vars, conv_vars, registry_vars, exec_vars,
    enrich_vars, ids_vars, store_vars,
    events_vars,
    batch_vars,
    clear_vars>>
outside_events == <<api_key, reg_ret, planner_vars, conv_vars, registry_vars, exec_vars,
    enrich_vars, ids_vars, store_vars, closer_vars,
    batch_vars,
    clear_vars>>
outside_batch == <<api_key, reg_ret, planner_vars, conv_vars, registry_vars, exec_vars,
    enrich_vars, ids_vars, store_vars, closer_vars,
    events_vars,
    clear_vars>>
outside_clear == <<api_key, reg_ret, planner_vars, conv_vars, registry_vars, exec_vars,
    enrich_vars, ids_vars, store_vars, closer_vars,
    events_vars, batch_vars>>

(***************************************************************************)
(* Bounds                                                                  *)
(***************************************************************************)
MaxCalls == 2        \* plan_async calls per behaviour
MaxPlanLen == 2      \* steps in a local plan given to the conversion
MaxDeps == 2         \* entries in one depends_on list
MaxExec == 2         \* /permission requests per behaviour
MaxRegOps == 4       \* registry operations per behaviour
MaxCommands == 2     \* commands in a reply given to the command loop
MaxClears == 1       \* /session/clear requests per behaviour
MaxEvents == 2       \* events in one batch given to the converter
MaxReports == 2      \* status reports in one event batch
MaxStoreOps == 2     \* session store operations per behaviour
MaxClock == 2        \* seconds the clock advances per behaviour
SessionTimeout == 1  \* session_timeout given to SessionManager, in seconds

(***************************************************************************)
(* Strings                                                                 *)
(***************************************************************************)
Digit(d) ==
    CASE d = 0 -> "0" [] d = 1 -> "1" [] d = 2 -> "2" [] d = 3 -> "3"
      [] d = 4 -> "4" [] d = 5 -> "5" [] d = 6 -> "6" [] d = 7 -> "7"
      [] d = 8 -> "8" [] d = 9 -> "9"

RECURSIVE Digits(_)
Digits(n) == IF n < 10 THEN <<Digit(n)>>
             ELSE Digits(n \div 10) \o <<Digit(n % 10)>>

RECURSIVE ZeroPad(_, _)
ZeroPad(s, width) == IF Len(s) >= width THEN s
                     ELSE ZeroPad(<<"0">> \o s, width)

\* f"{n:0<width>d}" for n >= 0
FormatInt(n, width) == ZeroPad(Digits(n), width)

\* s.split('_')[-1]
LastSegment(s) ==
    LET seps == {i \in 1..Len(s) : s[i] = "_"}
        start == IF seps = {} THEN 1
                 ELSE (CHOOSE i \in seps : \A j \in seps : j <= i) + 1
    IN  SubSeq(s, start, Len(s))

\* int(s) for a string of decimal digits; -1 stands for ValueError
DigitVal(c) ==
    CASE c = "0" -> 0 [] c = "1" -> 1 [] c = "2" -> 2 [] c = "3" -> 3
      [] c = "4" -> 4 [] c = "5" -> 5 [] c = "6" -> 6 [] c = "7" -> 7
      [] c = "8" -> 8 [] c = "9" -> 9 [] OTHER -> -1

RECURSIVE ParseInt(_)
ParseInt(s) ==
    IF Len(s) = 0 THEN -1
    ELSE LET d == DigitVal(s[Len(s)])
         IN  IF d < 0 THEN -1
             ELSE IF Len(s) = 1 THEN d
             ELSE LET hi == ParseInt(SubSeq(s, 1, Len(s) - 1))
                  IN  IF hi < 0 THEN -1 ELSE 10 * hi + d

\* the value None where a string is expected
NoneId == <<"None">>
Str_unkn == <<"u", "n", "k", "n">>
Str_000 == <<"0", "0", "0">>
Str_goal == <<"g", "o", "a", "l", "_">>
Str_plan == <<"p", "l", "a", "n", "_">>
Str_cmd == <<"c", "m", "d", "_">>
Sep == <<"_">>

(***************************************************************************)
(* Identifier generator                                                    *)
(***************************************************************************)
\* None has no split: AttributeError, caught
extract_session_suffix(session_id) ==
    IF session_id = NoneId THEN Str_unkn ELSE LastSegment(session_id)

extract_goal_sequence(goal_id) ==
    IF goal_id = NoneId THEN Str_000 ELSE LastSegment(goal_id)

\* a goal id with the sequence number before the session suffix
generate_goal_id_swapped(session_id, sequence) ==
    Str_goal \o FormatInt(sequence, 3) \o Sep \o extract_session_suffix(session_id)

generate_goal_id(session_id, sequence) ==
    Str_goal \o extract_session_suffix(session_id) \o Sep \o FormatInt(sequence, 3)

\* a plan id made from the goal alone
generate_plan_id_unnumbered(goal_id, sequence) ==
    Str_plan \o extract_goal_sequence(goal_id) \o Sep \o FormatInt(1, 2)

generate_plan_id(goal_id, sequence) ==
    Str_plan \o extract_goal_sequence(goal_id) \o Sep \o FormatInt(sequence, 2)

generate_command_id(plan_id, sequence) ==
    Str_cmd \o plan_id \o Sep \o FormatInt(sequence, 3)

new_goal_id(session_id, sequence) == generate_goal_id(session_id, sequence)
new_plan_id(goal_id, sequence) == generate_plan_id(goal_id, sequence)
new_command_id(plan_id, sequence) == generate_command_id(plan_id, sequence)

(***************************************************************************)
(* Data                                                                    *)
(***************************************************************************)
SessionIds == {<<"s", "_", "a">>, <<"s", "_", "b">>}

\* Optional[List[str]]: None, or a list
NoneList == [is_none |-> TRUE, ids |-> <<>>]
SomeList(l) == [is_none |-> FALSE, ids |-> l]
Truthy(opt) == ~opt.is_none /\ Len(opt.ids) > 0

Plan(id, action_type, description, depends_on) ==
    [id |-> id, action_type |-> action_type, description |-> description,
     depends_on |-> depends_on]

SeqsUpTo(S, n) == UNION {[1..k -> S] : k \in 0..n}

ActionTypes == {"place_block", "move_to"}

(***************************************************************************)
(* Planning stage: local plan -> resolved plan                             *)
(***************************************************************************)
\* simple_to_full_mapping after the first pass: a later step with the same
\* local id overwrites the entry of an earlier one
SimpleToFullMapping(plan, goal_id) ==
    [local \in {plan[i].id : i \in 1..Len(plan)} |->
        LET last == CHOOSE i \in 1..Len(plan) :
                        /\ plan[i].id = local
                        /\ \A j \in 1..Len(plan) : plan[j].id = local => j <= i
        IN  new_plan_id(goal_id, last)]

\* a conversion that leaves a reference without a match in place
RECURSIVE ConvertDepends_keep(_, _)
ConvertDepends_keep(deps, mapping) ==
    IF deps = <<>> THEN <<>>
    ELSE <<IF Head(deps) \in DOMAIN mapping THEN mapping[Head(deps)] ELSE Head(deps)>>
         \o ConvertDepends_keep(Tail(deps), mapping)

RECURSIVE ConvertDepends(_, _)
ConvertDepends(deps, mapping) ==
    IF deps = <<>> THEN <<>>
    ELSE (IF Head(deps) \in DOMAIN mapping THEN <<mapping[Head(deps)]>> ELSE <<>>)
         \o ConvertDepends(Tail(deps), mapping)

RewriteDependsOn(depends_on, mapping) ==
    IF Truthy(depends_on)
    THEN LET converted_depends == ConvertDepends(depends_on.ids, mapping)
         IN  IF converted_depends # <<>> THEN SomeList(converted_depends)
             ELSE NoneList
    ELSE depends_on

\* a conversion that numbers the steps from 0
convert_simple_to_full_response_zero_based(simple_response, session_id, goal_sequence) ==
    LET goal_id == new_goal_id(session_id, goal_sequence)
        plan == simple_response.plan
        mapping == SimpleToFullMapping(plan, goal_id)
        full_plans == [i \in 1..Len(plan) |->
                          Plan(new_plan_id(goal_id, i - 1),
                               plan[i].action_type,
                               plan[i].description,
                               RewriteDependsOn(plan[i].depends_on, mapping))]
    IN  [session_id |-> session_id,
         goal_id |-> goal_id,
         goal_label |-> simple_response.goal_label,
         talk_to_player |-> simple_response.talk_to_player,
         plan |-> full_plans]

convert_simple_to_full_response(simple_response, session_id, goal_sequence) ==
    LET goal_id == new_goal_id(session_id, goal_sequence)
        plan == simple_response.plan
        mapping == SimpleToFullMapping(plan, goal_id)
        full_plans == [i \in 1..Len(plan) |->
                          Plan(new_plan_id(goal_id, i),
                               plan[i].action_type,
                               plan[i].description,
                               RewriteDependsOn(plan[i].depends_on, mapping))]
    IN  [session_id |-> session_id,
         goal_id |-> goal_id,
         goal_label |-> simple_response.goal_label,
         talk_to_player |-> simple_response.talk_to_player,
         plan |-> full_plans]

\* Local plans the completion service may return
LocalIds == {<<"1">>, <<"2">>}
DanglingId == <<"9">>
DepIds == {<<"1">>, DanglingId}
DependsChoices == {NoneList} \cup {SomeList(l) : l \in SeqsUpTo(DepIds, MaxDeps)}
StepTemplates ==
    {[id |-> <<"1">>, action_type |-> "place_block", description |-> "d1"],
     [id |-> <<"2">>, action_type |-> "move_to", description |-> "d2"],
     [id |-> <<"1">>, action_type |-> "move_to", description |-> "d3"]}
LocalSteps == {Plan(t.id, t.action_type, t.description, d) :
                  t \in StepTemplates, d \in DependsChoices}
LocalPlans == SeqsUpTo(LocalSteps, MaxPlanLen)
SimpleResponse(plan) ==
    [goal_label |-> "label", talk_to_player |-> "talk", plan |-> plan]
GoalSequences == {1, 12}
NoValue == [none |-> TRUE]

ConvInputs == [simple_response : {SimpleResponse(p) : p \in LocalPlans},
               session_id : {<<"s", "_", "a">>},
               goal_sequence : GoalSequences]

Convert ==
    /\ conv_out = NoValue
    /\ conv_out' = convert_simple_to_full_response(
                       conv_in.simple_response, conv_in.session_id,
                       conv_in.goal_sequence)
    /\ UNCHANGED conv_in
    /\ UNCHANGED outside_conv

(***************************************************************************)
(* Planning stage: plan_async                                              *)
(***************************************************************************)
MAX_RETRIES == 3

Get(dict, key, default) == IF key \in DOMAIN dict THEN dict[key] ELSE default
Put(dict, key, value) ==
    [k \in DOMAIN dict \cup {key} |-> IF k = key THEN value ELSE dict[k]]
EmptyDict == [k \in {} |-> 0]

\* the counter of another key is read
NextGoalSequenceValue_wrongkey(sequences, session_id) == Get(sequences, <<>>, 0) + 1
\* the new value is not written back
NextGoalSequenceStore_skip(sequences, session_id, seq) == sequences

\* _next_goal_sequence: the value returned, and the dictionary it leaves
NextGoalSequenceValue(sequences, session_id) == Get(sequences, session_id, 0) + 1
NextGoalSequenceStore(sequences, session_id, seq) == Put(sequences, session_id, seq)

\* replies of the completion service to one planning request
ReplyPlans ==
    {<<>>,
     <<Plan(<<"1">>, "place_block", "d1", NoneList),
       Plan(<<"2">>, "move_to", "d2", SomeList(<<<<"1">>, DanglingId>>))>>}
RetryableReplies == {"empty", "bad_json", "invalid"}

\* a request that is changed on a retry
PlannerRequest_feedback(session_id, attempt) ==
    [model |-> "gpt-5-mini",
     system |-> <<"planner_system_prompt", session_id>>,
     user |-> IF attempt = 0 THEN "build a wall" ELSE "build a wall (valid JSON only)",
     max_completion_tokens |-> 8000]

\* the request built once before the retry loop
PlannerRequest(session_id, attempt) ==
    [model |-> "gpt-5-mini",
     system |-> <<"planner_system_prompt", session_id>>,
     user |-> "build a wall",
     max_completion_tokens |-> 8000]

IdleCall ==
    [pc |-> "idle", session_id |-> <<>>, seq |-> 0, attempt |-> 0,
     requests |-> <<>>, last_reply |-> "none", response |-> NoValue]

\* the goal id of the fallback built with the default sequence
FallbackResponse_default(session_id, seq) ==
    [session_id |-> session_id,
     goal_id |-> new_goal_id(session_id, 1),
     goal_label |-> "Error occurred during planning",
     talk_to_player |-> "Sorry, I encountered an error while planning. Could you try again?",
     plan |-> <<>>]

FallbackResponse(session_id, seq) ==
    [session_id |-> session_id,
     goal_id |-> new_goal_id(session_id, seq),
     goal_label |-> "Error occurred during planning",
     talk_to_player |-> "Sorry, I encountered an error while planning. Could you try again?",
     plan |-> <<>>]

NoCalls == [c \in 1..MaxCalls |-> IdleCall]

\* plan_async up to its first await: _ensure_initialized, then the prompt
PlanStart(c, s) ==
    /\ plan_calls[c].pc = "idle"
    /\ \A d \in 1..MaxCalls : d < c => plan_calls[d].pc # "idle"
    /\ IF ~planner_client /\ ~api_key
       THEN /\ plan_calls' = [plan_calls EXCEPT ![c].pc = "raised",
                                                ![c].session_id = s]
            /\ UNCHANGED planner_client
       ELSE /\ planner_client' = TRUE
            /\ plan_calls' = [plan_calls EXCEPT ![c].pc = "prompt",
                                                ![c].session_id = s]
    /\ UNCHANGED <<session_goal_sequences, goal_log>>
    /\ UNCHANGED outside_planner

\* the prompt is ready: mint the goal sequence, build the request, first attempt
PromptDone(c) ==
    /\ plan_calls[c].pc = "prompt"
    /\ LET s == plan_calls[c].session_id
           seq == NextGoalSequenceValue(session_goal_sequences, s)
       IN  /\ session_goal_sequences' =
                  NextGoalSequenceStore(session_goal_sequences, s, seq)
           /\ goal_log' = Append(goal_log, [session_id |-> s, value |-> seq, call |-> c])
           /\ plan_calls' = [plan_calls EXCEPT
                  ![c].pc = "llm", ![c].seq = seq, ![c].attempt = 0,
                  ![c].requests = <<PlannerRequest(s, 0)>>]
    /\ UNCHANGED planner_client
    /\ UNCHANGED outside_planner

\* an except branch that lets the error reach the caller of plan_async
PlanFallback_raise(c, reply) ==
    /\ plan_calls' = [plan_calls EXCEPT ![c].pc = "raised", ![c].last_reply = reply]
    /\ UNCHANGED <<session_goal_sequences, goal_log>>

\* the except branch of plan_async: a fresh sequence number and the fixed reply
PlanFallback(c, reply) ==
    LET s == plan_calls[c].session_id
        seq == NextGoalSequenceValue(session_goal_sequences, s)
    IN  /\ session_goal_sequences' =
               NextGoalSequenceStore(session_goal_sequences, s, seq)
        /\ goal_log' = Append(goal_log, [session_id |-> s, value |-> seq, call |-> c])
        /\ plan_calls' = [plan_calls EXCEPT
               ![c].pc = "done", ![c].last_reply = reply,
               ![c].response = FallbackResponse(s, seq)]

\* generate_planner_system_prompt raises
PromptFail(c) ==
    /\ plan_calls[c].pc = "prompt"
    /\ PlanFallback(c, "none")
    /\ UNCHANGED planner_client
    /\ UNCHANGED outside_planner

\* a reply that parses and validates
LlmOk(c, plan) ==
    /\ plan_calls[c].pc = "llm"
    /\ plan_calls' = [plan_calls EXCEPT
           ![c].pc = "done", ![c].last_reply = "ok",
           ![c].response = convert_simple_to_full_response(
               SimpleResponse(plan), plan_calls[c].session_id, plan_calls[c].seq)]
    /\ UNCHANGED <<planner_client, session_goal_sequences, goal_log>>
    /\ UNCHANGED outside_planner

\* empty content, invalid JSON or a schema violation, with attempts left
LlmRetry(c, reply) ==
    /\ plan_calls[c].pc = "llm"
    /\ plan_calls[c].attempt < MAX_RETRIES - 1
    /\ plan_calls' = [plan_calls EXCEPT
           ![c].attempt = @ + 1, ![c].last_reply = reply,
           ![c].requests = Append(@, PlannerRequest(plan_calls[c].session_id,
                                                     plan_calls[c].attempt + 1))]
    /\ UNCHANGED <<planner_client, session_goal_sequences, goal_log>>
    /\ UNCHANGED outside_planner

\* the same on the last attempt: the error is raised to plan_async
LlmExhausted(c, reply) ==
    /\ plan_calls[c].pc = "llm"
    /\ ~(plan_calls[c].attempt < MAX_RETRIES - 1)
    /\ PlanFallback(c, reply)
    /\ UNCHANGED planner_client
    /\ UNCHANGED outside_planner

\* any other exception of the completion call: not retried
LlmError(c) ==
    /\ plan_calls[c].pc = "llm"
    /\ PlanFallback(c, "api_error")
    /\ UNCHANGED planner_client
    /\ UNCHANGED outside_planner

PlanNext ==
    \/ \E c \in 1..MaxCalls, s \in SessionIds : PlanStart(c, s)
    \/ \E c \in 1..MaxCalls : PromptDone(c)
    \/ \E c \in 1..MaxCalls : PromptFail(c)
    \/ \E c \in 1..MaxCalls, plan \in ReplyPlans : LlmOk(c, plan)
    \/ \E c \in 1..MaxCalls, reply \in RetryableReplies : LlmRetry(c, reply)
    \/ \E c \in 1..MaxCalls, reply \in RetryableReplies : LlmExhausted(c, reply)
    \/ \E c \in 1..MaxCalls : LlmError(c)

\* handle_events: the answer to the /events request of a planning call that
\* ended; an exception of plan_async becomes HTTP 500
handle_events_answer(call) ==
    IF call.pc = "raised" THEN [status |-> 500, body |-> NoValue]
    ELSE [status |-> 200, body |-> call.response]

(***************************************************************************)
(* Plan-Command registry                                                   *)
(***************************************************************************)
Remove(dict, key) == [k \in DOMAIN dict \ {key} |-> dict[k]]

PlanInfo(plan_id, plan_description, plan_action_type) ==
    [plan_id |-> plan_id, plan_description |-> plan_description,
     plan_action_type |-> plan_action_type]
NoInfo == [none |-> TRUE]

PlanCommandMapping(session_id, goal_id) ==
    [session_id |-> session_id, goal_id |-> goal_id, mappings |-> EmptyDict]

\* a binding that keeps the plan a command id is already bound to
add_mapping_first_wins(mapping, command_id, info) ==
    IF command_id \in DOMAIN mapping.mappings THEN mapping
    ELSE [mapping EXCEPT !.mappings = Put(@, command_id, info)]

\* PlanCommandMapping.add_mapping
add_mapping(mapping, command_id, info) ==
    [mapping EXCEPT !.mappings = Put(@, command_id, info)]

\* PlanCommandMapping.get_plan_info
get_plan_info(mapping, command_id) == Get(mapping.mappings, command_id, NoInfo)

\* a registration that keeps the bindings the session already has
RegisterMappings_keep(mappings, permission) ==
    IF permission.session_id \in DOMAIN mappings
    THEN [mappings EXCEPT ![permission.session_id].goal_id = permission.goal_id]
    ELSE Put(mappings, permission.session_id,
             PlanCommandMapping(permission.session_id, permission.goal_id))

\* register_plan_permission: the two dictionaries it leaves
RegisterMappings(mappings, permission) ==
    Put(mappings, permission.session_id,
        PlanCommandMapping(permission.session_id, permission.goal_id))
RegisterApproved(approved, permission) ==
    Put(approved, permission.session_id, permission.approved_plans)

\* the metadata of the last approved plan is taken when the id matches
MatchingPlan_last(approved_plans, plan_id) ==
    IF \E i \in 1..Len(approved_plans) : approved_plans[i].id = plan_id
    THEN Len(approved_plans) ELSE 0

\* map_command_to_plan: the first approved plan with the given id, 0 if none
MatchingPlan(approved_plans, plan_id) ==
    LET hits == {i \in 1..Len(approved_plans) : approved_plans[i].id = plan_id}
    IN  IF hits = {} THEN 0 ELSE CHOOSE i \in hits : \A j \in hits : i <= j

MapCommandResult(mappings, approved, session_id, plan_id) ==
    /\ session_id \in DOMAIN mappings
    /\ session_id \in DOMAIN approved
    /\ MatchingPlan(approved[session_id], plan_id) # 0

\* a bind that writes into the mapping of every registered session
MapCommandMappings_everywhere(mappings, approved, session_id, command_id, plan_id) ==
    IF MapCommandResult(mappings, approved, session_id, plan_id)
    THEN LET plan == approved[session_id][MatchingPlan(approved[session_id], plan_id)]
         IN  [s \in DOMAIN mappings |->
                 add_mapping(mappings[s], command_id,
                             PlanInfo(plan_id, plan.description, plan.action_type))]
    ELSE mappings

MapCommandMappings(mappings, approved, session_id, command_id, plan_id) ==
    IF MapCommandResult(mappings, approved, session_id, plan_id)
    THEN LET plan == approved[session_id][MatchingPlan(approved[session_id], plan_id)]
         IN  [mappings EXCEPT ![session_id] =
                 add_mapping(@, command_id,
                             PlanInfo(plan_id, plan.description, plan.action_type))]
    ELSE mappings

get_plan_info_for_command(mappings, session_id, command_id) ==
    IF session_id \notin DOMAIN mappings THEN NoInfo
    ELSE get_plan_info(mappings[session_id], command_id)

\* a clear that empties the bindings and keeps the session registered
clear_session_mappings_emptied(mappings, session_id) ==
    IF session_id \in DOMAIN mappings
    THEN [mappings EXCEPT ![session_id].mappings = EmptyDict]
    ELSE mappings

clear_session_mappings(mappings, session_id) ==
    IF session_id \in DOMAIN mappings THEN Remove(mappings, session_id)
    ELSE mappings

NoRegOp == [n |-> 0, op |-> "none", session_id |-> <<>>,
            command_id |-> <<>>, plan_id |-> <<>>, ok |-> FALSE,
            info |-> NoInfo, prev |-> NoInfo, bound |-> {}]

\* Approval decisions sent by the client
Permission(session_id, goal_id, approved_plans, additional_info, game_state) ==
    [session_id |-> session_id, goal_id |-> goal_id, goal_label |-> "label",
     approved_plans |-> approved_plans, additional_info |-> additional_info,
     game_state |-> game_state]

TwoStepPlan ==
    <<Plan(<<"1">>, "place_block", "d1", NoneList),
      Plan(<<"2">>, "move_to", "d2", SomeList(<<<<"1">>>>))>>
\* the plan the planning stage returned for goal number n of a session
ResolvedPlan(session_id, n) ==
    convert_simple_to_full_response(SimpleResponse(TwoStepPlan), session_id, n).plan
ApprovedChoices(session_id, n) ==
    LET plan == ResolvedPlan(session_id, n)
    IN  {<<>>, <<plan[1]>>, plan}
GoalNumbers == {1, 2}
CommandNumbers == {1, 2}
NoGameState == [none |-> TRUE]
NoText == "None"

RegPermissions ==
    UNION {{Permission(s, new_goal_id(s, n), a, NoText, NoGameState) :
               a \in ApprovedChoices(s, n)} : s \in SessionIds, n \in GoalNumbers}
RegCommandIds(s) == {new_command_id(new_goal_id(s, n), i) :
                        n \in GoalNumbers, i \in CommandNumbers}
RegPlanIds == {ResolvedPlan(s, n)[i].id : s \in SessionIds, n \in GoalNumbers, i \in 1..2}

RegRegister(permission) ==
    /\ reg_ret.n < MaxRegOps
    /\ registry_mappings' = RegisterMappings(registry_mappings, permission)
    /\ registry_approved_plans' = RegisterApproved(registry_approved_plans, permission)
    /\ reg_ret' = [n |-> reg_ret.n + 1, op |-> "register",
                   session_id |-> permission.session_id, command_id |-> <<>>,
                   plan_id |-> <<>>, ok |-> TRUE, info |-> NoInfo,
                   prev |-> NoInfo, bound |-> reg_ret.bound]
    /\ UNCHANGED outside_registry

RegBind(s, command_id, plan_id) ==
    /\ reg_ret.n < MaxRegOps
    /\ registry_mappings' = MapCommandMappings(registry_mappings,
           registry_approved_plans, s, command_id, plan_id)
    /\ LET ok == MapCommandResult(registry_mappings, registry_approved_plans,
                                  s, plan_id)
       IN  reg_ret' = [n |-> reg_ret.n + 1, op |-> "bind", session_id |-> s,
                       command_id |-> command_id, plan_id |-> plan_id,
                       ok |-> ok, info |-> NoInfo,
                       prev |-> get_plan_info_for_command(registry_mappings,
                                                          s, command_id),
                       bound |-> IF ok
                                 THEN reg_ret.bound \cup
                                      {<<s, command_id, registry_mappings[s].goal_id>>}
                                 ELSE reg_ret.bound]
    /\ UNCHANGED registry_approved_plans
    /\ UNCHANGED outside_registry

RegLookup(s, command_id) ==
    /\ reg_ret.n < MaxRegOps
    /\ reg_ret' = [n |-> reg_ret.n + 1, op |-> "lookup", session_id |-> s,
                   command_id |-> command_id, plan_id |-> <<>>, ok |-> TRUE,
                   info |-> get_plan_info_for_command(registry_mappings, s, command_id),
                   prev |-> NoInfo, bound |-> reg_ret.bound]
    /\ UNCHANGED registry_vars
    /\ UNCHANGED outside_registry

RegClear(s) ==
    /\ reg_ret.n < MaxRegOps
    /\ registry_mappings' = clear_session_mappings(registry_mappings, s)
    /\ reg_ret' = [n |-> reg_ret.n + 1, op |-> "clear", session_id |-> s,
                   command_id |-> <<>>, plan_id |-> <<>>, ok |-> TRUE,
                   info |-> NoInfo, prev |-> NoInfo, bound |-> reg_ret.bound]
    /\ UNCHANGED registry_approved_plans
    /\ UNCHANGED outside_registry

RegNext ==
    \/ \E permission \in RegPermissions : RegRegister(permission)
    \/ \E s \in SessionIds : \E c \in RegCommandIds(s), p \in RegPlanIds :
          RegBind(s, c, p)
    \/ \E s \in SessionIds : \E c \in RegCommandIds(s) : RegLookup(s, c)
    \/ \E s \in SessionIds : RegClear(s)

(***************************************************************************)
(* Execution stage                                                         *)
(***************************************************************************)
\* A dictionary entry that may be missing or None: <<>> or <<value>>
Absent == <<>>
Present(opt) == opt # <<>>

Params(voxel_name, voxel_id, voxel_names, voxel_ids, count) ==
    [voxel_name |-> voxel_name, voxel_id |-> voxel_id,
     voxel_names |-> voxel_names, voxel_ids |-> voxel_ids, count |-> count]
NoParams == Params(Absent, Absent, Absent, Absent, Absent)
Command(id, type, params) == [id |-> id, type |-> type, params |-> params]
\* a batch built with the session id in the place of the goal id
CommandBatch_session_as_goal(session_id, goal_id, commands) ==
    [session_id |-> session_id, goal_id |-> session_id, commands |-> commands]
CommandBatch(session_id, goal_id, commands) ==
    [session_id |-> session_id, goal_id |-> goal_id, commands |-> commands]

\* str.lower() on the voxel names in use
Lower(name) == CASE name = "Dirt" -> "dirt" [] name = "Stone" -> "stone"
                 [] name = "DIRT" -> "dirt"
                 [] OTHER -> name

\* voxel ids: "" is the empty string, "int0" the integer 0
UnusableIds == {"", "int0"}

GameState(voxel_definitions) == [none |-> FALSE, voxel_definitions |-> voxel_definitions]
VoxelDef(id, name) == [id |-> id, name |-> name]
\* a definition whose "name" entry is JSON null: .get('name', '') returns None
NullName == "null"
\* building the name -> id map raises (None.lower()) before anything is written
EnrichRaises(defs) == \E i \in 1..Len(defs) : defs[i].name = NullName

\* name -> id map of a snapshot; a later definition of a name overwrites
RECURSIVE NameToIdMap(_)
NameToIdMap(defs) ==
    IF defs = <<>> THEN EmptyDict
    ELSE LET rest == NameToIdMap(SubSeq(defs, 1, Len(defs) - 1))
             voxel == defs[Len(defs)]
             name == Lower(voxel.name)
         IN  IF name # "" /\ Present(voxel.id) THEN Put(rest, name, voxel.id[1])
             ELSE rest

\* a resolution that writes the name itself where the snapshot has no match
RECURSIVE ResolveNames_guess(_, _)
ResolveNames_guess(names, map) ==
    IF names = <<>> THEN <<>>
    ELSE <<IF Lower(Head(names)) \in DOMAIN map THEN map[Lower(Head(names))]
           ELSE Lower(Head(names))>> \o ResolveNames_guess(Tail(names), map)

RECURSIVE ResolveNames(_, _)
ResolveNames(names, map) ==
    IF names = <<>> THEN <<>>
    ELSE (IF Lower(Head(names)) \in DOMAIN map THEN <<map[Lower(Head(names))]>>
          ELSE <<>>) \o ResolveNames(Tail(names), map)

DefaultCount(params) ==
    IF ~Present(params.count) \/ params.count = <<0>>
    THEN [params EXCEPT !.count = <<1>>] ELSE params

\* an enrichment that also writes the looked-up, lower-cased name back
EnrichPlace_lowercased(params, map) ==
    LET name == params.voxel_name
        id == params.voxel_id
        resolved ==
            IF /\ Present(name) /\ name[1] # ""
               /\ (~Present(id) \/ id[1] \in UnusableIds)
               /\ Lower(name[1]) \in DOMAIN map
            THEN [params EXCEPT !.voxel_id = <<map[Lower(name[1])]>>,
                                !.voxel_name = <<Lower(name[1])>>]
            ELSE params
    IN  DefaultCount(resolved)

\* an enrichment that takes the snapshot's id for the name whatever id is there
EnrichPlace_overwrite(params, map) ==
    LET name == params.voxel_name
        resolved ==
            IF /\ Present(name) /\ name[1] # ""
               /\ Lower(name[1]) \in DOMAIN map
            THEN [params EXCEPT !.voxel_id = <<map[Lower(name[1])]>>]
            ELSE params
    IN  DefaultCount(resolved)

EnrichPlace(params, map) ==
    LET name == params.voxel_name
        id == params.voxel_id
        resolved ==
            IF /\ Present(name) /\ name[1] # ""
               /\ (~Present(id) \/ id[1] \in UnusableIds)
               /\ Lower(name[1]) \in DOMAIN map
            THEN [params EXCEPT !.voxel_id = <<map[Lower(name[1])]>>]
            ELSE params
    IN  DefaultCount(resolved)

EnrichDestroy(params, map) ==
    LET names == params.voxel_names
        ids == params.voxel_ids
        resolved_ids == IF Present(names) THEN ResolveNames(names[1], map) ELSE <<>>
        resolved ==
            IF /\ Present(names)
               /\ (~Present(ids) \/ Len(ids[1]) = 0)
               /\ resolved_ids # <<>>
            THEN [params EXCEPT !.voxel_ids = <<resolved_ids>>]
            ELSE params
    IN  DefaultCount(resolved)

\* _enrich_command_params; its own except branch leaves the command as it is
enrich_command_params(command, game_state) ==
    IF command.type \notin {"place_block", "destroy_block"} THEN command
    ELSE IF game_state.none THEN command
    ELSE IF game_state.voxel_definitions = <<>> THEN command
    ELSE IF EnrichRaises(game_state.voxel_definitions) THEN command
    ELSE LET map == NameToIdMap(game_state.voxel_definitions)
         IN  [command EXCEPT !.params =
                 IF command.type = "place_block" THEN EnrichPlace(@, map)
                 ELSE EnrichDestroy(@, map)]

\* a loop body in which the exception of the enrichment reaches the loop
ProcessCommand_skip(simple_command, permission, sequence) ==
    [raised |-> /\ simple_command.type \in {"place_block", "destroy_block"}
                /\ ~permission.game_state.none
                /\ EnrichRaises(permission.game_state.voxel_definitions),
     command |-> enrich_command_params(
                     Command(new_command_id(permission.goal_id, sequence),
                             simple_command.type, simple_command.params),
                     permission.game_state)]

\* the body of the loop for one command of the reply: raised tells whether an
\* exception reached the except branch of the loop, which skips the command
ProcessCommand(simple_command, permission, sequence) ==
    [raised |-> FALSE,
     command |-> enrich_command_params(
                     Command(new_command_id(permission.goal_id, sequence),
                             simple_command.type, simple_command.params),
                     permission.game_state)]

RECURSIVE AppendProcessed(_, _, _)
AppendProcessed(simple_commands, permission, i) ==
    IF i > Len(simple_commands) THEN <<>>
    ELSE LET result == ProcessCommand(simple_commands[i], permission, i)
         IN  (IF result.raised THEN <<>> ELSE <<result.command>>)
             \o AppendProcessed(simple_commands, permission, i + 1)

\* a loop that numbers the commands from 0
BuildCommands_zero_based(simple_commands, permission) ==
    [i \in 1..Len(simple_commands) |->
        ProcessCommand(simple_commands[i], permission, i - 1).command]

\* the loop of _call_openai_for_commands over the validated reply
BuildCommands(simple_commands, permission) ==
    AppendProcessed(simple_commands, permission, 1)

\* the command of an empty approval that carries feedback
ContinueCommand(permission) ==
    Command(new_command_id(permission.goal_id, 1), "continue_plan",
            [current_summary |-> <<"Player rejected all plans for", permission.goal_label>>,
             possible_next_steps |-> permission.additional_info,
             request_snapshot |-> FALSE])

TextTruthy(text) == text # NoText /\ text # ""

\* Replies of the completion service to an execution request
PlaceDirt == [type |-> "place_block",
              params |-> Params(<<"Dirt">>, Absent, Absent, Absent, Absent)]
MoveTo == [type |-> "move_to", params |-> NoParams]
DestroyStone == [type |-> "destroy_block",
                 params |-> Params(Absent, Absent, <<<<"Stone", "lava">>>>, Absent, <<0>>)]
ReplyCommandLists == {<<>>, <<PlaceDirt>>, <<MoveTo, DestroyStone>>}
\* json.loads raises JSONDecodeError, SimpleExecutorResponse raises ValidationError
ExecRetryableReplies == {"bad_json", "invalid"}
\* "empty": message.content is None and json.loads raises TypeError
ExecOtherFailures == {"empty", "api_error"}

Snapshot == GameState(<<VoxelDef(<<"1">>, "dirt"), VoxelDef(<<"2">>, "Stone")>>)
Feedback == "try a wider wall"
ExecGoals == {<<<<"s", "_", "a">>, 1>>, <<<<"s", "_", "a">>, 2>>, <<<<"s", "_", "b">>, 1>>}
ExecPermissions ==
    UNION {
        {Permission(g[1], new_goal_id(g[1], g[2]), <<>>, info, NoGameState) :
            info \in {NoText, "", Feedback}}
        \cup
        {Permission(g[1], new_goal_id(g[1], g[2]), a, NoText, gs) :
            a \in ApprovedChoices(g[1], g[2]) \ {<<>>},
            gs \in {NoGameState, Snapshot}}
        : g \in ExecGoals}

IdleExec == [pc |-> "idle", permission |-> NoValue, attempt |-> 0, llm_calls |-> 0,
             last_reply |-> "none", outcome |-> "none", batch |-> NoValue]

\* SessionTool.process_plan_permission: registers the approval
process_plan_permission_mappings(mappings, permission) ==
    RegisterMappings(mappings, permission)
process_plan_permission_approved(approved, permission) ==
    RegisterApproved(approved, permission)

\* the request is answered with a batch
ExecReturn(permission, commands, outcome, llm_calls, reply) ==
    LET batch == CommandBatch(permission.session_id, permission.goal_id, commands)
    IN  /\ exec_call' = [pc |-> "done", permission |-> permission,
                         attempt |-> exec_call.attempt, llm_calls |-> llm_calls,
                         last_reply |-> reply, outcome |-> outcome, batch |-> batch]
        /\ batch_log' = Append(batch_log, batch)

\* handle_plan_permission up to the first await of the execution stage
ExecStart(permission) ==
    /\ exec_call.pc \in {"idle", "done"}
    /\ exec_count < MaxExec
    /\ exec_count' = exec_count + 1
    /\ registry_mappings' =
           process_plan_permission_mappings(registry_mappings, permission)
    /\ registry_approved_plans' =
           process_plan_permission_approved(registry_approved_plans, permission)
    /\ IF ~executor_client /\ ~api_key
       THEN \* _ensure_initialized raises; execute_plans answers with the empty batch
            /\ ExecReturn(permission, <<>>, "init_error", 0, "none")
            /\ UNCHANGED executor_client
       ELSE /\ executor_client' = TRUE
            /\ IF permission.approved_plans = <<>>
               THEN IF TextTruthy(permission.additional_info)
                    THEN ExecReturn(permission, <<ContinueCommand(permission)>>,
                                    "continue_plan", 0, "none")
                    ELSE ExecReturn(permission, <<>>, "nothing", 0, "none")
               ELSE /\ exec_call' = [pc |-> "prompt", permission |-> permission,
                                     attempt |-> 0, llm_calls |-> 0,
                                     last_reply |-> "none",
                                     outcome |-> "none", batch |-> NoValue]
                    /\ UNCHANGED batch_log
    /\ UNCHANGED outside_executor

\* generate_executor_system_prompt returned: first attempt of the completion call
ExecPromptDone ==
    /\ exec_call.pc = "prompt"
    /\ exec_call' = [exec_call EXCEPT !.pc = "llm", !.attempt = 0, !.llm_calls = 1]
    /\ UNCHANGED <<executor_client, exec_count, batch_log, registry_vars>>
    /\ UNCHANGED outside_executor

\* generate_executor_system_prompt raised
ExecPromptFail ==
    /\ exec_call.pc = "prompt"
    /\ ExecReturn(exec_call.permission, <<>>, "prompt_error", exec_call.llm_calls, "none")
    /\ UNCHANGED <<executor_client, exec_count, registry_vars>>
    /\ UNCHANGED outside_executor

\* a reply that parses and validates
ExecLlmOk(simple_commands) ==
    /\ exec_call.pc = "llm"
    /\ ExecReturn(exec_call.permission,
                  BuildCommands(simple_commands, exec_call.permission),
                  "ok", exec_call.llm_calls, "ok")
    /\ UNCHANGED <<executor_client, exec_count, registry_vars>>
    /\ UNCHANGED outside_executor

\* invalid JSON or a schema violation, with attempts left
ExecLlmRetry(reply) ==
    /\ exec_call.pc = "llm"
    /\ exec_call.attempt < MAX_RETRIES - 1
    /\ exec_call' = [exec_call EXCEPT !.attempt = @ + 1, !.llm_calls = @ + 1,
                                      !.last_reply = reply]
    /\ UNCHANGED <<executor_client, exec_count, batch_log, registry_vars>>
    /\ UNCHANGED outside_executor

\* the same on the last attempt: raised, and answered with the empty batch
ExecLlmExhausted(reply) ==
    /\ exec_call.pc = "llm"
    /\ ~(exec_call.attempt < MAX_RETRIES - 1)
    /\ ExecReturn(exec_call.permission, <<>>, "exhausted", exec_call.llm_calls, reply)
    /\ UNCHANGED <<executor_client, exec_count, registry_vars>>
    /\ UNCHANGED outside_executor

\* any other exception in the attempt: an empty command list, not retried
ExecLlmError(reply) ==
    /\ exec_call.pc = "llm"
    /\ ExecReturn(exec_call.permission, <<>>, "error", exec_call.llm_calls, reply)
    /\ UNCHANGED <<executor_client, exec_count, registry_vars>>
    /\ UNCHANGED outside_executor

ExecNext ==
    \/ \E permission \in ExecPermissions : ExecStart(permission)
    \/ ExecPromptDone
    \/ ExecPromptFail
    \/ \E simple_commands \in ReplyCommandLists : ExecLlmOk(simple_commands)
    \/ \E reply \in ExecRetryableReplies : ExecLlmRetry(reply)
    \/ \E reply \in ExecRetryableReplies : ExecLlmExhausted(reply)
    \/ \E reply \in ExecOtherFailures : ExecLlmError(reply)

(***************************************************************************)
(* Execution stage: the command loop on its own                            *)
(***************************************************************************)
\* Commands of a validated reply; params stay the dictionary of the reply
PlaceCommand(voxel_name, voxel_id, count) ==
    [type |-> "place_block",
     params |-> Params(voxel_name, voxel_id, Absent, Absent, count)]
DestroyCommand(voxel_names, voxel_ids, count) ==
    [type |-> "destroy_block",
     params |-> Params(Absent, Absent, voxel_names, voxel_ids, count)]
EnrichCommands ==
    {PlaceDirt,
     PlaceCommand(<<"dirt">>, <<"">>, <<2>>),
     PlaceCommand(<<"Stone">>, <<"int0">>, <<0>>),
     PlaceCommand(<<"lava">>, Absent, <<1>>),
     PlaceCommand(<<"sand">>, Absent, <<1>>),
     PlaceCommand(Absent, <<"2">>, <<1>>),
     PlaceCommand(<<"Dirt">>, <<"7">>, Absent),
     MoveTo,
     DestroyStone,
     DestroyCommand(Absent, <<<<"2">>>>, <<3>>),
     DestroyCommand(<<<<"lava">>>>, <<<<>>>>, Absent)}

\* Snapshots sent with an approval: none, no definitions, definitions with a
\* repeated name and a missing id, and one with a null name
SnapshotFull ==
    GameState(<<VoxelDef(<<"1">>, "dirt"), VoxelDef(<<"2">>, "Stone"),
                VoxelDef(Absent, "sand"), VoxelDef(<<"5">>, "DIRT")>>)
BrokenSnapshot ==
    GameState(<<VoxelDef(<<"1">>, "dirt"), VoxelDef(<<"3">>, NullName)>>)
EnrichSnapshots == {NoGameState, GameState(<<>>), Snapshot, SnapshotFull, BrokenSnapshot}

EnrichInputs ==
    [simple_commands : SeqsUpTo(EnrichCommands, MaxCommands),
     permission : {Permission(<<"s", "_", "a">>, new_goal_id(<<"s", "_", "a">>, 1),
                              ResolvedPlan(<<"s", "_", "a">>, 1), NoText, gs) :
                      gs \in EnrichSnapshots}]

\* the loop of _call_openai_for_commands applied to one validated reply
BuildBatch ==
    /\ enrich_out = NoValue
    /\ enrich_out' = [commands |->
                         BuildCommands(enrich_in.simple_commands, enrich_in.permission)]
    /\ UNCHANGED enrich_in
    /\ UNCHANGED outside_enrich

(***************************************************************************)
(* Correlation closer: SessionDataConverter._process_commands              *)
(***************************************************************************)
\* LastCommand.phase is optional
NoPhase == "None"
Phases == {"pending", "done", "failed", "cancelled", NoPhase}
\* phase.title()
Title(phase) ==
    CASE phase = "pending" -> "Pending" [] phase = "done" -> "Done"
      [] phase = "failed" -> "Failed" [] phase = "cancelled" -> "Cancelled"

LastCommand(id, type, phase) == [id |-> id, type |-> type, phase |-> phase]
NoDescription == "None"

\* None.title() raises AttributeError
FormatRaises(cmd_data) == cmd_data.phase = NoPhase

\* format_command_message: f"{phase.title()}: {...}", kept in its three parts
format_command_message(cmd_data, plan_description) ==
    IF plan_description \notin {NoDescription, ""}
    THEN <<Title(cmd_data.phase), ": ", plan_description>>
    ELSE IF cmd_data.type = "create_voxel_type"
    THEN <<Title(cmd_data.phase), ": ", "Create voxel type 'unknown'">>
    ELSE IF cmd_data.type = "place_block"
    THEN <<Title(cmd_data.phase), ": ", "Place blocks">>
    ELSE <<Title(cmd_data.phase), ": ", cmd_data.type>>

\* the add_message call of _process_commands for one status report
CommandMessage(mappings, session_id, cmd_data) ==
    LET plan_info == get_plan_info_for_command(mappings, session_id, cmd_data.id)
        plan_id == IF plan_info # NoInfo THEN plan_info.plan_id ELSE NoneId
        plan_description == IF plan_info # NoInfo THEN plan_info.plan_description
                            ELSE NoDescription
    IN  [role |-> "agent", msg_type |-> "event",
         content |-> format_command_message(cmd_data, plan_description),
         payload |-> [command_type |-> cmd_data.type, phase |-> cmd_data.phase,
                      plan_id |-> plan_id, plan_description |-> plan_description]]

\* _process_commands: the add_message calls made, and whether it raised
RECURSIVE process_commands(_, _, _)
process_commands(mappings, session_id, last_commands) ==
    IF last_commands = <<>> THEN [messages |-> <<>>, raised |-> FALSE]
    ELSE IF FormatRaises(Head(last_commands))
    THEN [messages |-> <<>>, raised |-> TRUE]
    ELSE LET rest == process_commands(mappings, session_id, Tail(last_commands))
         IN  [messages |-> <<CommandMessage(mappings, session_id, Head(last_commands))>>
                              \o rest.messages,
              raised |-> rest.raised]

CloserSession == <<"s", "_", "a">>
CloserPermission ==
    Permission(CloserSession, new_goal_id(CloserSession, 1),
               ResolvedPlan(CloserSession, 1), NoText, NoGameState)
\* no session, a registered session without bindings, one and two bindings
CloserRegistries ==
    LET registered == RegisterMappings(EmptyDict, CloserPermission)
        approved == RegisterApproved(EmptyDict, CloserPermission)
        c1 == new_command_id(CloserPermission.goal_id, 1)
        c2 == new_command_id(CloserPermission.goal_id, 2)
        one == MapCommandMappings(registered, approved, CloserSession, c1,
                                  CloserPermission.approved_plans[1].id)
        two == MapCommandMappings(one, approved, CloserSession, c2,
                                  CloserPermission.approved_plans[2].id)
    IN  {EmptyDict, registered, one, two}
CloserReports ==
    {LastCommand(new_command_id(CloserPermission.goal_id, i), type, phase) :
        i \in {1, 2}, type \in {"place_block", "move_to", "create_voxel_type"},
        phase \in Phases}
CloserInputs ==
    [mappings : CloserRegistries, session_id : {CloserSession},
     last_commands : SeqsUpTo(CloserReports, MaxReports)]

ProcessCommands ==
    /\ closer_out = NoValue
    /\ closer_out' = process_commands(closer_in.mappings, closer_in.session_id,
                                      closer_in.last_commands)
    /\ UNCHANGED closer_in
    /\ UNCHANGED outside_closer

(***************************************************************************)
(* The /events endpoint: handle_events                                     *)
(***************************************************************************)
Event(type) == [type |-> type, text |-> "hello"]
\* the part of a GameState the endpoint reads
ReportedState(last_commands) ==
    [none |-> FALSE, timestamp |-> "000100", last_commands |-> last_commands]
EventBatch(session_id, events, game_state) ==
    [session_id |-> session_id, events |-> events, game_state |-> game_state]

should_include_event(event) ==
    IF event.type = "player_speak" THEN FALSE
    ELSE event.type \in {"player_build", "voxel_type_created", "voxel_type_modified",
                         "agent_continue_plan", "agent_perception"}

IsSpeak(event) == event.type = "player_speak"
ChatMessage(event) ==
    [role |-> "user", msg_type |-> "chat", content |-> event.text,
     payload |-> NoValue]
EventMessage(event) ==
    [role |-> "player", msg_type |-> "event", content |-> event.type,
     payload |-> event]

\* process_event_batch: the add_message calls made, and whether it raised
process_event_batch(mappings, event_batch) ==
    LET speaks == SelectSeq(event_batch.events, IsSpeak)
        others == SelectSeq(event_batch.events, should_include_event)
        chats == [i \in 1..Len(speaks) |-> ChatMessage(speaks[i])]
        events == [i \in 1..Len(others) |-> EventMessage(others[i])]
        commands ==
            IF event_batch.game_state # NoGameState
               /\ event_batch.game_state.last_commands # <<>>
            THEN process_commands(mappings, event_batch.session_id,
                                  event_batch.game_state.last_commands)
            ELSE [messages |-> <<>>, raised |-> FALSE]
    IN  [messages |-> chats \o events \o commands.messages,
         raised |-> commands.raised]

\* f"Plans:\n" + "\n".join(f"- {plan.description}" ...), kept as a list
PlanSummary(plan) == <<"Plans:">> \o [i \in 1..Len(plan) |-> plan[i].description]

\* a summary is written for every reply
ReplyMessages_summary_always(planner_response) ==
    <<[role |-> "agent", msg_type |-> "chat",
       content |-> planner_response.talk_to_player, payload |-> NoValue],
      [role |-> "agent", msg_type |-> "event",
       content |-> PlanSummary(planner_response.plan), payload |-> NoValue]>>

\* the add_message calls of handle_events after plan_async has returned
ReplyMessages(planner_response) ==
    <<[role |-> "agent", msg_type |-> "chat",
       content |-> planner_response.talk_to_player, payload |-> NoValue]>>
    \o (IF planner_response.plan # <<>>
        THEN <<[role |-> "agent", msg_type |-> "event",
                content |-> PlanSummary(planner_response.plan),
                payload |-> NoValue]>>
        ELSE <<>>)

\* the session history after the add_message calls of request c
AppendAll(history, session_id, messages, c) ==
    Put(history, session_id,
        Get(history, session_id, <<>>)
        \o [i \in 1..Len(messages) |->
               [role |-> messages[i].role, msg_type |-> messages[i].msg_type,
                content |-> messages[i].content, payload |-> messages[i].payload,
                request |-> c]])

\* Event.type
EventTypes == {"player_speak", "player_build", "voxel_type_created",
               "voxel_type_updated", "agent_continue_plan", "agent_perception"}
BatchInputs ==
    {EventBatch(<<"s", "_", "a">>, [i \in 1..Len(types) |-> Event(types[i])], state) :
        types \in SeqsUpTo(EventTypes, MaxEvents),
        state \in {NoGameState, ReportedState(<<>>)}}

ProcessEventBatch ==
    /\ batch_out = NoValue
    /\ batch_out' = process_event_batch(EmptyDict, batch_in)
    /\ UNCHANGED batch_in
    /\ UNCHANGED outside_batch

NoRequest == [pc |-> "idle", batch |-> NoValue, status |-> 0]
NoRequests == [c \in 1..MaxCalls |-> NoRequest]

EvEventLists ==
    {<<Event("player_speak")>>,
     <<Event("player_build"), Event("player_speak"), Event("voxel_type_updated")>>}
EvReportLists ==
    LET id == new_command_id(new_goal_id(<<"s", "_", "a">>, 1), 1)
    IN  {<<>>, <<LastCommand(id, "place_block", "done")>>,
         <<LastCommand(id, "move_to", "done"), LastCommand(id, "move_to", NoPhase)>>}
EvBatches ==
    {EventBatch(s, events, ReportedState(reports)) :
        s \in SessionIds, events \in EvEventLists, reports \in EvReportLists}

\* handle_events up to the call of plan_async: the session is looked up and
\* the batch is written to its history
EvReceive(c, batch) ==
    /\ ev_req[c].pc = "idle"
    /\ \A d \in 1..MaxCalls : d < c => ev_req[d].pc # "idle"
    /\ LET done == process_event_batch(registry_mappings, batch)
       IN  /\ ev_history' = AppendAll(ev_history, batch.session_id, done.messages, c)
           /\ ev_req' = [ev_req EXCEPT ![c] =
                 IF done.raised
                 THEN [pc |-> "failed", batch |-> batch, status |-> 500]
                 ELSE [pc |-> "planning", batch |-> batch, status |-> 0]]
    /\ UNCHANGED outside_events

\* result = await plan_async(batch)
EvPlanStart(c) ==
    /\ ev_req[c].pc = "planning"
    /\ PlanStart(c, ev_req[c].batch.session_id)

\* plan_async has returned: the reply is written to the history and answered
EvReply(c) ==
    /\ ev_req[c].pc = "planning"
    /\ plan_calls[c].pc = "done"
    /\ ev_history' = AppendAll(ev_history, ev_req[c].batch.session_id,
                               ReplyMessages(plan_calls[c].response), c)
    /\ ev_req' = [ev_req EXCEPT ![c].pc = "answered",
             ![c].status = handle_events_answer(plan_calls[c]).status]
    /\ UNCHANGED outside_events

\* plan_async has raised: except Exception, HTTP 500
EvFail(c) ==
    /\ ev_req[c].pc = "planning"
    /\ plan_calls[c].pc = "raised"
    /\ ev_req' = [ev_req EXCEPT ![c].pc = "failed",
             ![c].status = handle_events_answer(plan_calls[c]).status]
    /\ UNCHANGED ev_history
    /\ UNCHANGED outside_events

EventsNext ==
    \/ \E c \in 1..MaxCalls, batch \in EvBatches : EvReceive(c, batch)
    \/ \E c \in 1..MaxCalls : EvPlanStart(c)
    \/ \E c \in 1..MaxCalls : PromptDone(c)
    \/ \E c \in 1..MaxCalls : PromptFail(c)
    \/ \E c \in 1..MaxCalls, plan \in ReplyPlans : LlmOk(c, plan)
    \/ \E c \in 1..MaxCalls, reply \in RetryableReplies : LlmRetry(c, reply)
    \/ \E c \in 1..MaxCalls, reply \in RetryableReplies : LlmExhausted(c, reply)
    \/ \E c \in 1..MaxCalls : LlmError(c)
    \/ \E c \in 1..MaxCalls : EvReply(c)
    \/ \E c \in 1..MaxCalls : EvFail(c)

(***************************************************************************)
(* Session store                                                           *)
(***************************************************************************)
MAX_HISTORY == 10
StoreIds == {<<"s", "_", "a">>, <<>>}
Roles == {"user", "assistant", "agent"}
MessageTypes == {"chat", "sense"}
NoType == "none"

\* an entry appended by SessionManager.add_message: a dictionary without type
DictMessage(role, content, timestamp) ==
    [form |-> "dict", type |-> NoType, role |-> role, content |-> content,
     timestamp |-> timestamp]
\* an entry appended by SessionState.add_message: a Message object
Message(type, role, content, timestamp) ==
    [form |-> "Message", type |-> type, role |-> role, content |-> content,
     timestamp |-> timestamp]
SessionState(conversation_history, last_active) ==
    [conversation_history |-> conversation_history, last_active |-> last_active]

\* l[-n:] for n >= 0; l[-0:] is l[0:]
LastN(l, n) ==
    IF n = 0 \/ n >= Len(l) THEN l ELSE SubSeq(l, Len(l) - n + 1, Len(l))
\* [msg for msg in l if msg['role'] == role]
WithRole(l, role) == LET Test(m) == m.role = role IN SelectSeq(l, Test)
WithType(l, type) == LET Test(m) == m.type = type IN SelectSeq(l, Test)

\* sorted(l, key=lambda x: x['timestamp']): stable
RECURSIVE SortedByTimestamp(_)
SortedByTimestamp(l) ==
    IF Len(l) <= 1 THEN l
    ELSE LET front == SortedByTimestamp(SubSeq(l, 1, Len(l) - 1))
             x == l[Len(l)]
             before == Cardinality({i \in 1..Len(front) :
                                       front[i].timestamp <= x.timestamp})
         IN  SubSeq(front, 1, before) \o <<x>> \o SubSeq(front, before + 1, Len(front))

\* a test that compares with the session's last activity the wrong way round
is_session_expired_reversed(sessions, session_id, now) ==
    IF session_id \notin DOMAIN sessions THEN TRUE
    ELSE sessions[session_id].last_active - now > SessionTimeout

is_session_expired(sessions, session_id, now) ==
    IF session_id \notin DOMAIN sessions THEN TRUE
    ELSE now - sessions[session_id].last_active > SessionTimeout

get_or_create_session(sessions, session_id, now) ==
    IF session_id \notin DOMAIN sessions
    THEN Put(sessions, session_id, SessionState(<<>>, now))
    ELSE IF is_session_expired(sessions, session_id, now)
    THEN Put(sessions, session_id, SessionState(<<>>, now))
    ELSE sessions

\* msg['role'] on a Message object raises TypeError
TrimRaises(history) == \E i \in 1..Len(history) : history[i].form = "Message"

\* the trim pass of SessionManager.add_message
Trimmed(history) ==
    IF Len(history) > MAX_HISTORY * 2
    THEN SortedByTimestamp(LastN(WithRole(history, "user"), MAX_HISTORY)
                           \o LastN(WithRole(history, "assistant"), MAX_HISTORY))
    ELSE history

AddMessageRaises(sessions, session_id) ==
    LET history == Get(sessions, session_id, SessionState(<<>>, 0)).conversation_history
    IN  Len(history) + 1 > MAX_HISTORY * 2 /\ TrimRaises(history)

\* SessionManager.add_message: the sessions it leaves
add_message(sessions, session_id, role, content, now) ==
    LET opened == get_or_create_session(sessions, session_id, now)
        appended == opened[session_id].conversation_history
                        \o <<DictMessage(role, content, now)>>
    IN  IF AddMessageRaises(opened, session_id)
        THEN Put(opened, session_id,
                 SessionState(appended, opened[session_id].last_active))
        ELSE Put(opened, session_id, SessionState(Trimmed(appended), now))

\* SessionState.add_message
state_add_message(session, role, content, msg_type, now) ==
    SessionState(session.conversation_history \o <<Message(msg_type, role, content, now)>>,
                 now)

\* msg.type on a dictionary raises AttributeError
GetRecentRaises(session, msg_type) ==
    /\ msg_type # NoType
    /\ \E i \in 1..Len(session.conversation_history) :
          session.conversation_history[i].form = "dict"

\* SessionState.get_recent_messages
get_recent_messages(session, limit, msg_type) ==
    IF msg_type # NoType
    THEN LastN(WithType(session.conversation_history, msg_type), limit)
    ELSE LastN(session.conversation_history, limit)

\* SessionManager.get_conversation_history: the list it returns
get_conversation_history(sessions, session_id, limit, now) ==
    LET history == get_or_create_session(sessions, session_id, now)[session_id]
                       .conversation_history
    IN  IF limit # 0 THEN LastN(history, limit) ELSE history

\* a clear that drops every session
clear_session_all(sessions, session_id, keep_important_info, now) ==
    IF session_id \notin DOMAIN sessions THEN sessions ELSE EmptyDict

\* SessionManager.clear_session
clear_session(sessions, session_id, keep_important_info, now) ==
    IF session_id \notin DOMAIN sessions THEN sessions
    ELSE IF keep_important_info THEN Put(sessions, session_id, SessionState(<<>>, now))
    ELSE Remove(sessions, session_id)

NoStoreOp == [n |-> 0, op |-> "none", session_id |-> <<>>, limit |-> 0,
              kind |-> NoType, value |-> <<>>, expired |-> FALSE, raised |-> FALSE]
StoreOp(op, session_id, limit, kind, value, expired, raised) ==
    [n |-> store_ret.n + 1, op |-> op, session_id |-> session_id, limit |-> limit,
     kind |-> kind, value |-> value, expired |-> expired, raised |-> raised]

\* the session existed and its last activity is older than the timeout
Expired(session_id) ==
    /\ session_id \in DOMAIN store_sessions
    /\ is_session_expired(store_sessions, session_id, store_clock)

\* the log of a session that get_or_create_session opens
OpenedLog(session_id) ==
    IF session_id \in DOMAIN store_sessions THEN store_log
    ELSE Put(store_log, session_id, <<>>)

\* Histories of 2 * MAX_HISTORY messages, one second apart, the last one now
StartRoles ==
    {[k \in 1..(2 * MAX_HISTORY) |-> IF k % 2 = 1 THEN "user" ELSE "assistant"],
     [k \in 1..(2 * MAX_HISTORY) |-> "user"],
     [k \in 1..(2 * MAX_HISTORY) |->
         IF k % 3 = 1 THEN "user" ELSE IF k % 3 = 2 THEN "agent" ELSE "assistant"]}
StartHistories ==
    {[k \in 1..(2 * MAX_HISTORY) |->
         DictMessage(roles[k], k, k - 2 * MAX_HISTORY)] : roles \in StartRoles}
    \cup {[k \in 1..(2 * MAX_HISTORY) |->
               Message(IF k % 2 = 1 THEN "chat" ELSE "sense", "agent", k,
                       k - 2 * MAX_HISTORY)],
          <<>>}

Tick ==
    /\ store_clock < MaxClock
    /\ store_clock' = store_clock + 1
    /\ UNCHANGED <<store_sessions, store_log, store_ret>>
    /\ UNCHANGED outside_store

StoreGetOrCreate(session_id) ==
    /\ store_ret.n < MaxStoreOps
    /\ store_sessions' = get_or_create_session(store_sessions, session_id, store_clock)
    /\ store_log' = OpenedLog(session_id)
    /\ store_ret' = StoreOp("get_or_create", session_id, 0, NoType, <<>>,
                            Expired(session_id), FALSE)
    /\ UNCHANGED store_clock
    /\ UNCHANGED outside_store

StoreAddMessage(session_id, role) ==
    /\ store_ret.n < MaxStoreOps
    /\ LET log == OpenedLog(session_id)
           content == Len(log[session_id]) + 1
       IN  /\ store_sessions' = add_message(store_sessions, session_id, role,
                                            content, store_clock)
           /\ store_log' = Put(log, session_id,
                   log[session_id] \o <<DictMessage(role, content, store_clock)>>)
           /\ store_ret' = StoreOp("add_message", session_id, 0, NoType, <<>>,
                   Expired(session_id),
                   AddMessageRaises(get_or_create_session(store_sessions, session_id,
                                                          store_clock), session_id))
    /\ UNCHANGED store_clock
    /\ UNCHANGED outside_store

\* SessionState.add_message on a session object obtained earlier
StoreStateAddMessage(session_id, role, msg_type) ==
    /\ store_ret.n < MaxStoreOps
    /\ session_id \in DOMAIN store_sessions
    /\ LET content == Len(store_log[session_id]) + 1
       IN  /\ store_sessions' = Put(store_sessions, session_id,
                   state_add_message(store_sessions[session_id], role, content,
                                     msg_type, store_clock))
           /\ store_log' = Put(store_log, session_id, store_log[session_id]
                   \o <<Message(msg_type, role, content, store_clock)>>)
    /\ store_ret' = StoreOp("state_add_message", session_id, 0, NoType, <<>>,
                            FALSE, FALSE)
    /\ UNCHANGED store_clock
    /\ UNCHANGED outside_store

StoreGetRecent(session_id, limit, msg_type) ==
    /\ store_ret.n < MaxStoreOps
    /\ session_id \in DOMAIN store_sessions
    /\ LET session == store_sessions[session_id]
       IN  store_ret' =
              IF GetRecentRaises(session, msg_type)
              THEN StoreOp("get_recent", session_id, limit, msg_type, <<>>, FALSE, TRUE)
              ELSE StoreOp("get_recent", session_id, limit, msg_type,
                           get_recent_messages(session, limit, msg_type), FALSE, FALSE)
    /\ UNCHANGED <<store_sessions, store_log, store_clock>>
    /\ UNCHANGED outside_store

StoreGetHistory(session_id, limit) ==
    /\ store_ret.n < MaxStoreOps
    /\ store_sessions' = get_or_create_session(store_sessions, session_id, store_clock)
    /\ store_log' = OpenedLog(session_id)
    /\ store_ret' = StoreOp("get_history", session_id, limit, NoType,
           get_conversation_history(store_sessions, session_id, limit, store_clock),
           Expired(session_id), FALSE)
    /\ UNCHANGED store_clock
    /\ UNCHANGED outside_store

StoreClear(session_id, keep_important_info) ==
    /\ store_ret.n < MaxStoreOps
    /\ store_sessions' = clear_session(store_sessions, session_id,
                                       keep_important_info, store_clock)
    /\ store_log' = IF session_id \notin DOMAIN store_sessions THEN store_log
                    ELSE IF keep_important_info THEN Put(store_log, session_id, <<>>)
                    ELSE Remove(store_log, session_id)
    /\ store_ret' = StoreOp("clear", session_id, 0, NoType, <<>>, FALSE, FALSE)
    /\ UNCHANGED store_clock
    /\ UNCHANGED outside_store

Limits == {0, 1, 2}

\* the clear_all of the session store: no session is left
clear_all(sessions) == EmptyDict

\* a clear that forgets the goal sequence of the session
GoalSequencesAfterClear_reset(sequences, session_id, all) ==
    IF all THEN EmptyDict
    ELSE IF session_id \in DOMAIN sequences THEN Remove(sequences, session_id)
    ELSE sequences

\* planner._session_goal_sequences after a clear: neither clear_session of
\* the store nor the endpoint refers to it
GoalSequencesAfterClear(sequences, session_id, all) == sequences

\* POST /session/clear
EpClear(session_id, all) ==
    /\ Len(ep_clears) < MaxClears
    /\ store_sessions' = IF all THEN clear_all(store_sessions)
                         ELSE clear_session(store_sessions, session_id, TRUE, store_clock)
    /\ store_log' = IF all THEN EmptyDict
                    ELSE IF session_id \in DOMAIN store_sessions
                    THEN Put(store_log, session_id, <<>>) ELSE store_log
    /\ session_goal_sequences' =
          GoalSequencesAfterClear(session_goal_sequences, session_id, all)
    /\ ep_clears' = Append(ep_clears,
          [session_id |-> session_id, all |-> all,
           stored |-> session_id \in DOMAIN store_sessions,
           minted |-> Len(goal_log)])
    /\ UNCHANGED <<store_clock, store_ret>>
    /\ UNCHANGED <<planner_client, plan_calls, goal_log>>
    /\ UNCHANGED <<api_key, reg_ret, conv_vars, registry_vars, exec_vars, enrich_vars,
                   ids_vars, closer_vars, events_vars, batch_vars>>

\* every session has been opened and holds one message
OpenSessions ==
    [s \in SessionIds |-> SessionState(<<DictMessage("user", 1, 0)>>, 0)]

\* one plan_async call after the other
ClearPlanStart(c, s) ==
    /\ \A d \in 1..MaxCalls : d < c => plan_calls[d].pc \in {"done", "raised"}
    /\ PlanStart(c, s)

\* the replies of the completion service used with the clears
ClearPlans == {<<>>}
ClearReplies == {"invalid"}

ClearNext ==
    \/ \E s \in SessionIds, all \in BOOLEAN : EpClear(s, all)
    \/ \E c \in 1..MaxCalls, s \in SessionIds : ClearPlanStart(c, s)
    \/ \E c \in 1..MaxCalls : PromptDone(c)
    \/ \E c \in 1..MaxCalls : PromptFail(c)
    \/ \E c \in 1..MaxCalls, plan \in ClearPlans : LlmOk(c, plan)
    \/ \E c \in 1..MaxCalls, reply \in ClearReplies : LlmRetry(c, reply)
    \/ \E c \in 1..MaxCalls, reply \in ClearReplies : LlmExhausted(c, reply)
    \/ \E c \in 1..MaxCalls : LlmError(c)

StoreNext ==
    \/ Tick
    \/ \E s \in StoreIds : StoreGetOrCreate(s)
    \/ \E s \in StoreIds, role \in Roles : StoreAddMessage(s, role)
    \/ \E s \in StoreIds, role \in {"user", "agent"}, t \in MessageTypes :
          StoreStateAddMessage(s, role, t)
    \/ \E s \in StoreIds, limit \in Limits, t \in {NoType, "chat"} :
          StoreGetRecent(s, limit, t)
    \/ \E s \in StoreIds, limit \in Limits : StoreGetHistory(s, limit)
    \/ \E s \in StoreIds, keep \in BOOLEAN : StoreClear(s, keep)

(***************************************************************************)
(* Identifier generator on its own                                         *)
(***************************************************************************)
\* well-formed session ids, ids without a separator, the empty id, None
IdSessionIds ==
    SessionIds \cup {<<"s", "_", "x", "_", "a", "4">>, <<"a", "b", "c">>, <<>>, NoneId}
IdSequences == {0, 1, 12, 999, 1000}
IdPlanSequences == {1, 2, 10, 100}
\* goal ids given to generate_plan_id that generate_goal_id did not build
IdParents == {<<"x", "7">>, NoneId}
IdInputs ==
    [session_id : IdSessionIds, sequence : IdSequences,
     plan_sequence : IdPlanSequences, parent : IdParents]

\* one goal id, the plan id under it and a plan id under the given parent
MintIds ==
    /\ id_out = NoValue
    /\ id_out' =
          LET goal_id == new_goal_id(id_in.session_id, id_in.sequence)
          IN  [goal_id |-> goal_id,
               goal_segment |-> extract_goal_sequence(goal_id),
               plan_id |-> new_plan_id(goal_id, id_in.plan_sequence),
               parent_plan_id |-> new_plan_id(id_in.parent, id_in.plan_sequence)]
    /\ UNCHANGED id_in
    /\ UNCHANGED outside_ids

(***************************************************************************)
(* Specifications                                                          *)
(***************************************************************************)
\* module state after import, with the arguments of one conversion call
InitConv ==
    /\ api_key = TRUE
    /\ planner_client = FALSE /\ executor_client = FALSE
    /\ session_goal_sequences = EmptyDict
    /\ plan_calls = NoCalls
    /\ goal_log = <<>>
    /\ conv_in \in ConvInputs
    /\ conv_out = NoValue
    /\ registry_mappings = EmptyDict
    /\ registry_approved_plans = EmptyDict
    /\ reg_ret = NoRegOp
    /\ exec_call = IdleExec
    /\ exec_count = 0
    /\ batch_log = <<>>
    /\ enrich_in = NoValue
    /\ enrich_out = NoValue
    /\ id_in = NoValue
    /\ id_out = NoValue
    /\ store_sessions = EmptyDict
    /\ store_clock = 0
    /\ store_log = EmptyDict
    /\ store_ret = NoStoreOp
    /\ closer_in = NoValue
    /\ closer_out = NoValue
    /\ ev_req = NoRequests
    /\ ev_history = EmptyDict
    /\ batch_in = NoValue
    /\ batch_out = NoValue
    /\ ep_clears = <<>>

\* module state after import; OPENAI_API_KEY is set or not
Init ==
    /\ api_key \in BOOLEAN
    /\ planner_client = FALSE /\ executor_client = FALSE
    /\ session_goal_sequences = EmptyDict
    /\ plan_calls = NoCalls
    /\ goal_log = <<>>
    /\ conv_in = NoValue
    /\ conv_out = NoValue
    /\ registry_mappings = EmptyDict
    /\ registry_approved_plans = EmptyDict
    /\ reg_ret = NoRegOp
    /\ exec_call = IdleExec
    /\ exec_count = 0
    /\ batch_log = <<>>
    /\ enrich_in = NoValue
    /\ enrich_out = NoValue
    /\ id_in = NoValue
    /\ id_out = NoValue
    /\ store_sessions = EmptyDict
    /\ store_clock = 0
    /\ store_log = EmptyDict
    /\ store_ret = NoStoreOp
    /\ closer_in = NoValue
    /\ closer_out = NoValue
    /\ ev_req = NoRequests
    /\ ev_history = EmptyDict
    /\ batch_in = NoValue
    /\ batch_out = NoValue
    /\ ep_clears = <<>>

\* module state after import, with one validated reply for the command loop
InitEnrich ==
    /\ api_key = TRUE
    /\ planner_client = FALSE /\ executor_client = FALSE
    /\ session_goal_sequences = EmptyDict
    /\ plan_calls = NoCalls
    /\ goal_log = <<>>
    /\ conv_in = NoValue
    /\ conv_out = NoValue
    /\ registry_mappings = EmptyDict
    /\ registry_approved_plans = EmptyDict
    /\ reg_ret = NoRegOp
    /\ exec_call = IdleExec
    /\ exec_count = 0
    /\ batch_log = <<>>
    /\ enrich_in \in EnrichInputs
    /\ enrich_out = NoValue
    /\ id_in = NoValue
    /\ id_out = NoValue
    /\ store_sessions = EmptyDict
    /\ store_clock = 0
    /\ store_log = EmptyDict
    /\ store_ret = NoStoreOp
    /\ closer_in = NoValue
    /\ closer_out = NoValue
    /\ ev_req = NoRequests
    /\ ev_history = EmptyDict
    /\ batch_in = NoValue
    /\ batch_out = NoValue
    /\ ep_clears = <<>>

\* module state after import, with OPENAI_API_KEY set
InitReg ==
    /\ api_key = TRUE
    /\ planner_client = FALSE /\ executor_client = FALSE
    /\ session_goal_sequences = EmptyDict
    /\ plan_calls = NoCalls
    /\ goal_log = <<>>
    /\ conv_in = NoValue
    /\ conv_out = NoValue
    /\ registry_mappings = EmptyDict
    /\ registry_approved_plans = EmptyDict
    /\ reg_ret = NoRegOp
    /\ exec_call = IdleExec
    /\ exec_count = 0
    /\ batch_log = <<>>
    /\ enrich_in = NoValue
    /\ enrich_out = NoValue
    /\ id_in = NoValue
    /\ id_out = NoValue
    /\ store_sessions = EmptyDict
    /\ store_clock = 0
    /\ store_log = EmptyDict
    /\ store_ret = NoStoreOp
    /\ closer_in = NoValue
    /\ closer_out = NoValue
    /\ ev_req = NoRequests
    /\ ev_history = EmptyDict
    /\ batch_in = NoValue
    /\ batch_out = NoValue
    /\ ep_clears = <<>>

\* module state after import, with the arguments of one round of id generation
InitIds ==
    /\ api_key = TRUE
    /\ planner_client = FALSE /\ executor_client = FALSE
    /\ session_goal_sequences = EmptyDict
    /\ plan_calls = NoCalls
    /\ goal_log = <<>>
    /\ conv_in = NoValue
    /\ conv_out = NoValue
    /\ registry_mappings = EmptyDict
    /\ registry_approved_plans = EmptyDict
    /\ reg_ret = NoRegOp
    /\ exec_call = IdleExec
    /\ exec_count = 0
    /\ batch_log = <<>>
    /\ enrich_in = NoValue
    /\ enrich_out = NoValue
    /\ id_in \in IdInputs
    /\ id_out = NoValue
    /\ store_sessions = EmptyDict
    /\ store_clock = 0
    /\ store_log = EmptyDict
    /\ store_ret = NoStoreOp
    /\ closer_in = NoValue
    /\ closer_out = NoValue
    /\ ev_req = NoRequests
    /\ ev_history = EmptyDict
    /\ batch_in = NoValue
    /\ batch_out = NoValue
    /\ ep_clears = <<>>

\* a SessionManager with no session or with one session with a full history
InitStore ==
    /\ api_key = TRUE
    /\ planner_client = FALSE /\ executor_client = FALSE
    /\ session_goal_sequences = EmptyDict
    /\ plan_calls = NoCalls
    /\ goal_log = <<>>
    /\ conv_in = NoValue
    /\ conv_out = NoValue
    /\ registry_mappings = EmptyDict
    /\ registry_approved_plans = EmptyDict
    /\ reg_ret = NoRegOp
    /\ exec_call = IdleExec
    /\ exec_count = 0
    /\ batch_log = <<>>
    /\ enrich_in = NoValue
    /\ enrich_out = NoValue
    /\ id_in = NoValue
    /\ id_out = NoValue
    /\ closer_in = NoValue
    /\ closer_out = NoValue
    /\ ev_req = NoRequests
    /\ ev_history = EmptyDict
    /\ batch_in = NoValue
    /\ batch_out = NoValue
    /\ ep_clears = <<>>
    /\ \E history \in StartHistories :
          IF history = <<>>
          THEN store_sessions = EmptyDict /\ store_log = EmptyDict
          ELSE /\ store_sessions = Put(EmptyDict, <<"s", "_", "a">>,
                                       SessionState(history, 0))
               /\ store_log = Put(EmptyDict, <<"s", "_", "a">>, history)
    /\ store_clock = 0
    /\ store_ret = NoStoreOp

\* a registry and the status reports of one event batch
InitCloser ==
    /\ api_key = TRUE
    /\ planner_client = FALSE /\ executor_client = FALSE
    /\ session_goal_sequences = EmptyDict
    /\ plan_calls = NoCalls
    /\ goal_log = <<>>
    /\ conv_in = NoValue
    /\ conv_out = NoValue
    /\ registry_mappings = EmptyDict
    /\ registry_approved_plans = EmptyDict
    /\ reg_ret = NoRegOp
    /\ exec_call = IdleExec
    /\ exec_count = 0
    /\ batch_log = <<>>
    /\ enrich_in = NoValue
    /\ enrich_out = NoValue
    /\ id_in = NoValue
    /\ id_out = NoValue
    /\ store_sessions = EmptyDict
    /\ store_clock = 0
    /\ store_log = EmptyDict
    /\ store_ret = NoStoreOp
    /\ closer_in \in CloserInputs
    /\ closer_out = NoValue
    /\ ev_req = NoRequests
    /\ ev_history = EmptyDict
    /\ batch_in = NoValue
    /\ batch_out = NoValue
    /\ ep_clears = <<>>

\* an event batch of every bounded list of event types
InitBatch ==
    /\ api_key = TRUE
    /\ planner_client = FALSE /\ executor_client = FALSE
    /\ session_goal_sequences = EmptyDict
    /\ plan_calls = NoCalls
    /\ goal_log = <<>>
    /\ conv_in = NoValue
    /\ conv_out = NoValue
    /\ registry_mappings = EmptyDict
    /\ registry_approved_plans = EmptyDict
    /\ reg_ret = NoRegOp
    /\ exec_call = IdleExec
    /\ exec_count = 0
    /\ batch_log = <<>>
    /\ enrich_in = NoValue
    /\ enrich_out = NoValue
    /\ id_in = NoValue
    /\ id_out = NoValue
    /\ store_sessions = EmptyDict
    /\ store_clock = 0
    /\ store_log = EmptyDict
    /\ store_ret = NoStoreOp
    /\ closer_in = NoValue
    /\ closer_out = NoValue
    /\ ev_req = NoRequests
    /\ ev_history = EmptyDict
    /\ batch_in \in BatchInputs
    /\ batch_out = NoValue
    /\ ep_clears = <<>>

\* the planner after import and a store with opened sessions
InitClear ==
    /\ api_key = TRUE
    /\ planner_client = FALSE /\ executor_client = FALSE
    /\ session_goal_sequences = EmptyDict
    /\ plan_calls = NoCalls
    /\ goal_log = <<>>
    /\ conv_in = NoValue
    /\ conv_out = NoValue
    /\ registry_mappings = EmptyDict
    /\ registry_approved_plans = EmptyDict
    /\ reg_ret = NoRegOp
    /\ exec_call = IdleExec
    /\ exec_count = 0
    /\ batch_log = <<>>
    /\ enrich_in = NoValue
    /\ enrich_out = NoValue
    /\ id_in = NoValue
    /\ id_out = NoValue
    /\ store_sessions = OpenSessions
    /\ store_clock = 0
    /\ store_log = [s \in SessionIds |-> OpenSessions[s].conversation_history]
    /\ store_ret = NoStoreOp
    /\ closer_in = NoValue
    /\ closer_out = NoValue
    /\ ev_req = NoRequests
    /\ ev_history = EmptyDict
    /\ batch_in = NoValue
    /\ batch_out = NoValue
    /\ ep_clears = <<>>

\* the conversion applied to every bounded local plan
SpecConv == InitConv /\ [][Convert]_vars

\* concurrent planning calls
SpecPlan == Init /\ [][PlanNext]_vars

\* the registry driven through its interface
SpecReg == InitReg /\ [][RegNext]_vars

\* approval decisions handled one after the other
SpecExec == Init /\ [][ExecNext]_vars

\* the command loop applied to every bounded reply and snapshot
SpecEnrich == InitEnrich /\ [][BuildBatch]_vars

\* the session store driven through its interface while time passes
SpecStore == InitStore /\ [][StoreNext]_vars

\* the converter applied to every bounded event batch
SpecBatch == InitBatch /\ [][ProcessEventBatch]_vars

\* planning calls, one after the other, with sessions opened and cleared
SpecClear == InitClear /\ [][ClearNext]_vars

\* /events requests, each with its plan_async call
SpecEvents == Init /\ [][EventsNext]_vars

\* the correlation closer applied to every bounded list of status reports
SpecCloser == InitCloser /\ [][ProcessCommands]_vars

\* the identifier generator applied to every input
SpecIds == InitIds /\ [][MintIds]_vars

(***************************************************************************)
(* Properties of the conversion                                            *)
(***************************************************************************)
ListSet(l) == {l[k] : k \in 1..Len(l)}
LocalIdsOf(plan) == {plan[i].id : i \in 1..Len(plan)}
\* positions of a local depends_on list that refer to a step of the response
KeptPositions(ids, plan) == {k \in 1..Len(ids) : ids[k] \in LocalIdsOf(plan)}
\* the m-th smallest element of a set of positions
RECURSIVE NthOf(_, _)
NthOf(S, m) ==
    LET least == CHOOSE k \in S : \A j \in S : k <= j
    IN  IF m = 1 THEN least ELSE NthOf(S \ {least}, m - 1)

\* C1: every resolved depends_on holds only resolved ids of steps of the same
\* response: a reference to a local id of the response is replaced by the
\* resolved id of a step with that local id, a reference to no step of the
\* response is dropped, and when every reference is dropped the dependency
\* set is empty; no entry is a local id.
C1_DependencyRewriteSound ==
    conv_out # NoValue =>
        LET local == conv_in.simple_response.plan
            full == conv_out.plan
        IN  /\ Len(full) = Len(local)
            /\ \A i \in 1..Len(local) :
                 LET ids == local[i].depends_on.ids
                     res == full[i].depends_on.ids
                     kept == KeptPositions(ids, local)
                 IN  /\ Len(res) = Cardinality(kept)
                     /\ \A m \in 1..Len(res) :
                          /\ \E j \in 1..Len(local) :
                               /\ local[j].id = ids[NthOf(kept, m)]
                               /\ res[m] = full[j].id
                          /\ res[m] \notin LocalIdsOf(local) \cup ListSet(ids)
                     /\ kept = {} => ListSet(res) = {}

\* a step that refers to an existing and to a missing local id was converted
C1_Witness ==
    /\ conv_out # NoValue
    /\ \E i \in 1..Len(conv_out.plan) :
         LET ids == conv_in.simple_response.plan[i].depends_on.ids
         IN  /\ DanglingId \in ListSet(ids)
             /\ KeptPositions(ids, conv_in.simple_response.plan) # {}
             /\ Len(conv_out.plan[i].depends_on.ids) = 1
    /\ \E i \in 1..Len(conv_out.plan) :
         /\ conv_in.simple_response.plan[i].depends_on = SomeList(<<DanglingId>>)
         /\ conv_out.plan[i].depends_on = NoneList

(***************************************************************************)
(* Properties of the planning stage                                        *)
(***************************************************************************)
\* the values _next_goal_sequence returned for a session, in call order
ValuesOf(s) == SelectSeq(goal_log, LAMBDA e : e.session_id = s)
\* the positions of goal_log written by a call
MintsOf(c) == {i \in 1..Len(goal_log) : goal_log[i].call = c}
LastMintOf(c) == CHOOSE i \in MintsOf(c) : \A j \in MintsOf(c) : j <= i

\* C2: for every session the values returned by next_goal_sequence start at 1
\* and are strictly increasing, whatever is called for other sessions in
\* between.
C2_GoalSequenceMonotonic ==
    \A s \in SessionIds :
        LET v == ValuesOf(s)
        IN  /\ Len(v) > 0 => v[1].value = 1
            /\ \A i \in 1..(Len(v) - 1) : v[i].value < v[i + 1].value

\* a session got its next number after another session was served in
\* between, and two numbers back to back
C2_Witness ==
    /\ \E i, j, k \in 1..Len(goal_log) :
          /\ i < j /\ j < k
          /\ goal_log[i].session_id = goal_log[k].session_id
          /\ goal_log[j].session_id # goal_log[i].session_id
          /\ goal_log[k].value = 2
    /\ \E i \in 1..(Len(goal_log) - 1) :
          goal_log[i].session_id = goal_log[i + 1].session_id

\* C3 as stated: a planning call that returned a response consumed exactly one
\* goal sequence number, so that a session's counter equals the number of its
\* calls that returned.
C3_ExactlyOneNumberPerCall ==
    /\ \A c \in 1..MaxCalls :
         plan_calls[c].pc = "done" => Cardinality(MintsOf(c)) = 1
    /\ \A s \in SessionIds :
         (\A c \in 1..MaxCalls :
             plan_calls[c].session_id = s => plan_calls[c].pc \in {"done", "raised"})
         => Get(session_goal_sequences, s, 0) =
                Cardinality({c \in 1..MaxCalls :
                    plan_calls[c].session_id = s /\ plan_calls[c].pc = "done"})

\* C3 amended: a planning call that returned a response consumed one number
\* when it succeeded or failed before its mint, and two when it failed after
\* its mint; its response carries the number it minted last, and a session's
\* counter equals the count of numbers minted for it.
C3_OneOrTwoNumbersPerCall ==
    /\ \A c \in 1..MaxCalls :
         plan_calls[c].pc = "done" =>
           LET call == plan_calls[c]
               failed_after_mint == call.last_reply \notin {"ok", "none"}
           IN  /\ Cardinality(MintsOf(c)) = IF failed_after_mint THEN 2 ELSE 1
               /\ call.response.goal_id =
                      new_goal_id(call.session_id, goal_log[LastMintOf(c)].value)
               /\ call.last_reply # "ok" => call.response.plan = <<>>
    /\ \A s \in SessionIds :
         Get(session_goal_sequences, s, 0) = Len(ValuesOf(s))

\* a call failed after its mint and a later call of the session returned
C3_Witness ==
    \E c, d \in 1..MaxCalls :
        /\ c # d
        /\ plan_calls[c].session_id = plan_calls[d].session_id
        /\ plan_calls[c].pc = "done" /\ plan_calls[d].pc = "done"
        /\ plan_calls[c].last_reply \in RetryableReplies \cup {"api_error"}
        /\ Cardinality(MintsOf(c)) = 2
        /\ Get(session_goal_sequences, plan_calls[c].session_id, 0) >= 3

\* C4: planning calls of one session that are in flight together hold
\* different goal sequence numbers, and no two responses of a session carry
\* the same goal id.
C4_ConcurrentCallsDistinctGoals ==
    \A c, d \in 1..MaxCalls :
        (c # d /\ plan_calls[c].session_id = plan_calls[d].session_id) =>
            /\ (plan_calls[c].seq # 0 /\ plan_calls[d].seq # 0)
                   => plan_calls[c].seq # plan_calls[d].seq
            /\ (plan_calls[c].response # NoValue /\ plan_calls[d].response # NoValue)
                   => plan_calls[c].response.goal_id # plan_calls[d].response.goal_id

\* two calls of one session await the completion service at the same time
C4_Witness ==
    \E c, d \in 1..MaxCalls :
        /\ c # d
        /\ plan_calls[c].session_id = plan_calls[d].session_id
        /\ plan_calls[c].pc = "llm" /\ plan_calls[d].pc = "llm"
        /\ plan_calls[c].seq # 0 /\ plan_calls[d].seq # 0

\* C10: a planning call sends at most 3 requests to the completion service,
\* all of them identical; it sends a further one only after a reply that
\* failed parsing or validation, and none after a reply that parses and
\* validates.
C10_BoundedIdenticalRetries ==
    [][\A c \in 1..MaxCalls :
         LET before == plan_calls[c]
             after == plan_calls'[c]
         IN  /\ Len(after.requests) <= 3
             /\ \A i \in 1..Len(after.requests) : after.requests[i] = after.requests[1]
             /\ (Len(before.requests) >= 1 /\ Len(after.requests) > Len(before.requests))
                    => /\ after.last_reply \in RetryableReplies
                       /\ Len(after.requests) = Len(before.requests) + 1
             /\ before.last_reply = "ok" => after = before
             /\ after.last_reply = "ok" =>
                    /\ after.pc = "done"
                    /\ Len(after.requests) = Len(before.requests)]_vars

\* a call whose third attempt was answered with a valid reply
C10_Witness ==
    \E c \in 1..MaxCalls :
        /\ plan_calls[c].pc = "done"
        /\ plan_calls[c].last_reply = "ok"
        /\ Len(plan_calls[c].requests) = 3

\* C11 as stated: a planning call whose attempts all failed parsing or
\* validation ends with an error for its caller and returns no response.
C11_ExhaustedCallRaises ==
    \A c \in 1..MaxCalls :
        (/\ plan_calls[c].last_reply \in RetryableReplies
         /\ Len(plan_calls[c].requests) = MAX_RETRIES
         /\ plan_calls[c].pc \notin {"llm"})
        => /\ plan_calls[c].pc = "raised"
           /\ plan_calls[c].response = NoValue

\* C11 amended: the error of the last failed attempt leaves the completion
\* step and is caught by plan_async, which returns the fixed fallback
\* response with an empty plan and a freshly minted goal number; plan_async
\* raises only before its first attempt.
C11_ExhaustedCallFallsBack ==
    \A c \in 1..MaxCalls :
        LET call == plan_calls[c]
        IN  /\ (call.pc = "done" /\ call.last_reply \in RetryableReplies) =>
                  /\ Len(call.requests) = MAX_RETRIES
                  /\ call.response =
                         FallbackResponse(call.session_id, goal_log[LastMintOf(c)].value)
                  /\ call.response.plan = <<>>
                  /\ goal_log[LastMintOf(c)].value > call.seq
            /\ call.pc = "raised" => (call.requests = <<>> /\ call.last_reply = "none")

\* a call ended after three replies that failed validation
C11_Witness ==
    \E c \in 1..MaxCalls :
        /\ plan_calls[c].pc = "done"
        /\ plan_calls[c].last_reply = "invalid"
        /\ Len(plan_calls[c].requests) = MAX_RETRIES
        /\ plan_calls[c].response.plan = <<>>

\* C12 as stated: every planning call that ended without a valid reply of
\* the completion service is answered on /events with status 200, the fixed
\* apologetic message, an empty plan and a goal id of the session.
C12_FailureAnsweredWithFallback ==
    \A c \in 1..MaxCalls :
        LET call == plan_calls[c]
            answer == handle_events_answer(call)
        IN  (call.pc \in {"done", "raised"} /\ call.last_reply # "ok") =>
                /\ answer.status = 200
                /\ answer.body.talk_to_player =
                       "Sorry, I encountered an error while planning. Could you try again?"
                /\ answer.body.plan = <<>>
                /\ \E n \in 1..(2 * MaxCalls) :
                       answer.body.goal_id = new_goal_id(call.session_id, n)

(***************************************************************************)
(* Properties of the registry                                              *)
(***************************************************************************)
Lookup(s, c) == get_plan_info_for_command(registry_mappings, s, c)
AllCommandIds == UNION {RegCommandIds(s) : s \in SessionIds}
RegOpOn(s, ops) == reg_ret'.n # reg_ret.n /\ reg_ret'.op \in ops /\ reg_ret'.session_id = s

\* C7: after a bind that returned true, lookup of the command yields the id,
\* description and action type of the approved plan as registered; a lookup
\* changes nothing in the registry and returns absent for a command that was
\* never bound in the session and for a session that was never registered.
C7_RegistryRoundTrip ==
    [][/\ (reg_ret'.n # reg_ret.n /\ reg_ret'.op = "bind" /\ reg_ret'.ok) =>
             LET s == reg_ret'.session_id
                 info == get_plan_info_for_command(registry_mappings', s,
                                                   reg_ret'.command_id)
             IN  /\ info # NoInfo
                 /\ info.plan_id = reg_ret'.plan_id
                 /\ \E i \in 1..Len(registry_approved_plans'[s]) :
                      LET plan == registry_approved_plans'[s][i]
                      IN  /\ plan.id = info.plan_id
                          /\ plan.description = info.plan_description
                          /\ plan.action_type = info.plan_action_type
       /\ (reg_ret'.n # reg_ret.n /\ reg_ret'.op = "lookup") =>
             /\ registry_mappings' = registry_mappings
             /\ registry_approved_plans' = registry_approved_plans
             /\ reg_ret'.info = Lookup(reg_ret'.session_id, reg_ret'.command_id)
             /\ (\/ reg_ret'.session_id \notin DOMAIN registry_approved_plans
                 \/ \A b \in reg_ret.bound :
                      ~(b[1] = reg_ret'.session_id /\ b[2] = reg_ret'.command_id))
                    => reg_ret'.info = NoInfo]_vars

\* a lookup returned the metadata of the second plan of a two-plan approval
C7_Witness ==
    /\ reg_ret.op = "lookup"
    /\ reg_ret.info # NoInfo
    /\ Len(registry_approved_plans[reg_ret.session_id]) = 2
    /\ reg_ret.info.plan_id = registry_approved_plans[reg_ret.session_id][2].id
    /\ reg_ret.info.plan_description = "d2"

C5_CommandIdsUniquePerSession ==
    \A b1, b2 \in 1..Len(batch_log) :
        batch_log[b1].session_id = batch_log[b2].session_id =>
            \A k1 \in 1..Len(batch_log[b1].commands) :
            \A k2 \in 1..Len(batch_log[b2].commands) :
                (b1 # b2 \/ k1 # k2) =>
                    batch_log[b1].commands[k1].id # batch_log[b2].commands[k2].id

\* C6 as stated: when the reply holds as many commands as there are approved
\* plans, lookup of the N-th command id of the batch yields the id,
\* description and action type of the N-th approved plan.
C6_CommandsBoundToPlans ==
    (/\ exec_call.pc = "done"
     /\ exec_call.outcome = "ok"
     /\ Len(exec_call.batch.commands) = Len(exec_call.permission.approved_plans))
    => \A n \in 1..Len(exec_call.batch.commands) :
         LET plan == exec_call.permission.approved_plans[n]
         IN  Lookup(exec_call.permission.session_id, exec_call.batch.commands[n].id)
                 = PlanInfo(plan.id, plan.description, plan.action_type)

\* C9 as stated: an approval without approved plans makes no call to the
\* completion service and is answered with exactly one continue_plan command
\* carrying the feedback when additional_info is present, and with the empty
\* batch when it is absent or empty.
C9_EmptyApprovalShortCircuit ==
    (exec_call.pc = "done" /\ exec_call.permission.approved_plans = <<>>) =>
        /\ exec_call.llm_calls = 0
        /\ IF TextTruthy(exec_call.permission.additional_info)
           THEN /\ Len(exec_call.batch.commands) = 1
                /\ exec_call.batch.commands[1].type = "continue_plan"
                /\ exec_call.batch.commands[1].params.possible_next_steps
                       = exec_call.permission.additional_info
           ELSE exec_call.batch.commands = <<>>

\* C13 as stated: every kind of reply the planning stage retries (empty
\* content, invalid JSON, schema violation) is retried by the execution stage
\* as well, up to 3 attempts, and the completion step ends with the error
\* raised after the last one.
C13_ExecutorRetriesLikePlanner ==
    (exec_call.pc = "done" /\ exec_call.last_reply \in RetryableReplies) =>
        /\ exec_call.llm_calls = MAX_RETRIES
        /\ exec_call.outcome = "exhausted"

\* C14: every returned batch carries the session id and the goal id of its
\* approval decision, and a request whose execution failed (initialisation,
\* prompt generation, completion call, retries exhausted) is answered with
\* the empty batch.
C14_FailureGivesEmptyBatch ==
    /\ exec_call.pc = "done" =>
          /\ exec_call.batch.session_id = exec_call.permission.session_id
          /\ exec_call.batch.goal_id = exec_call.permission.goal_id
          /\ batch_log # <<>>
          /\ batch_log[Len(batch_log)] = exec_call.batch
          /\ exec_call.outcome \in {"init_error", "prompt_error", "error", "exhausted"}
                 => exec_call.batch.commands = <<>>
          /\ exec_call.outcome \in {"init_error", "prompt_error", "error", "exhausted",
                                     "ok", "continue_plan", "nothing"}
    /\ Len(batch_log) = IF exec_call.pc \in {"prompt", "llm"} THEN exec_count - 1
                        ELSE exec_count

\* the second request of a behaviour exhausted its attempts after the first
\* was answered with commands
C14_Witness ==
    /\ exec_call.pc = "done"
    /\ exec_call.outcome = "exhausted"
    /\ exec_call.llm_calls = MAX_RETRIES
    /\ Len(batch_log) = 2
    /\ batch_log[1].commands # <<>>
    /\ batch_log[2].commands = <<>>
    /\ batch_log[2].goal_id = exec_call.permission.goal_id

(***************************************************************************)
(* Properties of the command loop                                          *)
(***************************************************************************)
DefsOf(game_state) == IF game_state.none THEN <<>> ELSE game_state.voxel_definitions
\* ids of the definitions of a snapshot whose name is the given one, letter
\* case aside
MatchIds(name, defs) ==
    {defs[k].id[1] : k \in {j \in 1..Len(defs) :
        /\ Present(defs[j].id)
        /\ defs[j].name \notin {NullName, ""}
        /\ Lower(defs[j].name) = Lower(name)}}
\* names of the definitions of a snapshot with the given id
MatchNames(id, defs) ==
    {defs[k].name : k \in {j \in 1..Len(defs) :
        defs[j].id = <<id>> /\ defs[j].name \notin {NullName, ""}}}
NeedsId(params) ==
    /\ Present(params.voxel_name) /\ params.voxel_name[1] # ""
    /\ (~Present(params.voxel_id) \/ params.voxel_id[1] \in UnusableIds)
NeedsIds(params) ==
    /\ Present(params.voxel_names)
    /\ (~Present(params.voxel_ids) \/ params.voxel_ids[1] = <<>>)
\* the ids of a destroy_block command after enrichment
IdsOf(params) == IF Present(params.voxel_ids) THEN ListSet(params.voxel_ids[1]) ELSE {}
EnrichmentFailed(simple_command, game_state) ==
    /\ simple_command.type \in {"place_block", "destroy_block"}
    /\ EnrichRaises(DefsOf(game_state))

\* C15: the command list built from a validated reply has one command per
\* command of the reply, in order; a command whose enrichment raised is in
\* the list with the params of the reply.
C15_FailedCommandStaysInBatch ==
    enrich_out # NoValue =>
        LET reply == enrich_in.simple_commands
            out == enrich_out.commands
        IN  /\ Len(out) = Len(reply)
            /\ \A i \in 1..Len(reply) :
                 /\ out[i].type = reply[i].type
                 /\ EnrichmentFailed(reply[i], enrich_in.permission.game_state)
                        => out[i].params = reply[i].params

\* enrichment raised for the first command of a reply of two commands
C15_Witness ==
    /\ enrich_out # NoValue
    /\ enrich_in.permission.game_state = BrokenSnapshot
    /\ enrich_in.simple_commands = <<PlaceDirt, MoveTo>>
    /\ Len(enrich_out.commands) = 2
    /\ enrich_out.commands[1].params.voxel_id = Absent

\* what C16 says of command i of a reply and the command built from it
IdsComeFromSnapshot(reply, out, defs) ==
    /\ (reply.type = "place_block" /\ NeedsId(reply.params)) =>
          LET ids == MatchIds(reply.params.voxel_name[1], defs)
          IN  IF ids # {} THEN /\ Present(out.params.voxel_id)
                               /\ out.params.voxel_id[1] \in ids
              ELSE out.params.voxel_id = reply.params.voxel_id
    /\ (reply.type = "destroy_block" /\ NeedsIds(reply.params)) =>
          LET names == ListSet(reply.params.voxel_names[1])
          IN  /\ \A n \in names : MatchIds(n, defs) # {} =>
                      IdsOf(out.params) \cap MatchIds(n, defs) # {}
              /\ \A id \in IdsOf(out.params) :
                      \E n \in names : id \in MatchIds(n, defs)
              /\ (\A n \in names : MatchIds(n, defs) = {}) =>
                      out.params.voxel_ids = reply.params.voxel_ids

C18_CountAtLeastOne ==
    enrich_out # NoValue =>
        \A i \in 1..Len(enrich_out.commands) :
            enrich_out.commands[i].type \in {"place_block", "destroy_block"} =>
                /\ Present(enrich_out.commands[i].params.count)
                /\ enrich_out.commands[i].params.count[1] >= 1

\* C19: the commands built from a validated reply are in the order of the
\* reply, and the N-th of them has the id new_command_id(goal_id, N).
C19_CommandsNumberedInOrder ==
    enrich_out # NoValue =>
        LET reply == enrich_in.simple_commands
            out == enrich_out.commands
        IN  /\ Len(out) = Len(reply)
            /\ \A n \in 1..Len(out) :
                 /\ out[n].id = new_command_id(enrich_in.permission.goal_id, n)
                 /\ out[n].type = reply[n].type
                 /\ out[n].params.voxel_name = reply[n].params.voxel_name
                 /\ out[n].params.voxel_names = reply[n].params.voxel_names

\* a destroy_block followed by a move_to became cmd_goal_a_001_001 and
\* cmd_goal_a_001_002
C19_Witness ==
    /\ enrich_out # NoValue
    /\ enrich_in.simple_commands = <<DestroyStone, MoveTo>>
    /\ enrich_out.commands[1].type = "destroy_block"
    /\ enrich_out.commands[1].id =
           <<"c", "m", "d", "_", "g", "o", "a", "l", "_", "a", "_", "0", "0", "1",
             "_", "0", "0", "1">>
    /\ enrich_out.commands[2].type = "move_to"
    /\ enrich_out.commands[2].id =
           <<"c", "m", "d", "_", "g", "o", "a", "l", "_", "a", "_", "0", "0", "1",
             "_", "0", "0", "2">>

\* C20: the resolved plan has as many steps as the local plan, in its order;
\* step i has the id new_plan_id(goal_id, i) for the goal id of the response
\* and the action type and description of local step i.
C20_StepsNumberedInOrder ==
    conv_out # NoValue =>
        LET local == conv_in.simple_response.plan
            full == conv_out.plan
        IN  /\ conv_out.goal_id = new_goal_id(conv_in.session_id, conv_in.goal_sequence)
            /\ Len(full) = Len(local)
            /\ \A i \in 1..Len(full) :
                 /\ full[i].id = new_plan_id(conv_out.goal_id, i)
                 /\ full[i].action_type = local[i].action_type
                 /\ full[i].description = local[i].description

\* two steps with the same local id under goal number 12 became plan_012_01
\* and plan_012_02
C20_Witness ==
    /\ conv_out # NoValue
    /\ conv_in.goal_sequence = 12
    /\ Len(conv_out.plan) = 2
    /\ conv_in.simple_response.plan[1].id = conv_in.simple_response.plan[2].id
    /\ conv_out.plan[1].id = <<"p", "l", "a", "n", "_", "0", "1", "2", "_", "0", "1">>
    /\ conv_out.plan[2].id = <<"p", "l", "a", "n", "_", "0", "1", "2", "_", "0", "2">>
    /\ conv_out.plan[1].description = "d1"
    /\ conv_out.plan[2].description = "d3"

(***************************************************************************)
(* Properties of the registry: rebinding                                   *)
(***************************************************************************)
\* C26: map_command_to_plan with the id of an approved plan of a registered
\* session returns True whether or not the command id is already bound,
\* a lookup of the command id then gives the metadata of that plan, and the
\* lookup of every other command id of the session gives what it gave before.
C26_LastWriterWins ==
    [][\A s \in SessionIds :
          RegOpOn(s, {"bind"}) =>
             LET c == reg_ret'.command_id
                 p == reg_ret'.plan_id
                 approved == IF s \in DOMAIN registry_approved_plans
                             THEN registry_approved_plans[s] ELSE <<>>
             IN  /\ \A i \in 1..Len(approved) :
                       (s \in DOMAIN registry_mappings /\ approved[i].id = p) =>
                          /\ reg_ret'.ok
                          /\ get_plan_info_for_command(registry_mappings', s, c) =
                                 PlanInfo(p, approved[i].description,
                                          approved[i].action_type)
                 /\ \A c2 \in RegCommandIds(s) \ {c} :
                       get_plan_info_for_command(registry_mappings', s, c2) =
                          get_plan_info_for_command(registry_mappings, s, c2)
      ]_vars

\* a command id bound to the first approved plan was bound to the second
C26_Witness ==
    /\ reg_ret.op = "bind" /\ reg_ret.ok
    /\ reg_ret.prev # NoInfo
    /\ reg_ret.prev.plan_description = "d1"
    /\ get_plan_info_for_command(registry_mappings, reg_ret.session_id,
                                 reg_ret.command_id).plan_description = "d2"

(***************************************************************************)
(* Properties of the identifier generator                                  *)
(***************************************************************************)
\* C27: the trailing segment of new_goal_id(S, n) parses to a number that,
\* with S, gives the same goal id again, and it is the three-digit form of
\* n; the plan id built under the goal id carries that segment, and its own
\* trailing segment parses to a number that, with the goal id, gives the
\* same plan id again.
C27_IdRoundTrip ==
    id_out # NoValue =>
        LET S == id_in.session_id
            goal_id == id_out.goal_id
            plan_id == id_out.plan_id
        IN  /\ id_out.goal_segment = FormatInt(id_in.sequence, 3)
            /\ ParseInt(id_out.goal_segment) = id_in.sequence
            /\ new_goal_id(S, ParseInt(id_out.goal_segment)) = goal_id
            /\ plan_id = Str_plan \o id_out.goal_segment \o Sep
                              \o FormatInt(id_in.plan_sequence, 2)
            /\ new_plan_id(goal_id, ParseInt(LastSegment(plan_id))) = plan_id

\* goal number 12 of session s_x_a4 and plan number 10 under it
C27_Witness ==
    /\ id_out # NoValue
    /\ id_in.session_id = <<"s", "_", "x", "_", "a", "4">>
    /\ id_out.goal_id = <<"g", "o", "a", "l", "_", "a", "4", "_", "0", "1", "2">>
    /\ id_out.goal_segment = <<"0", "1", "2">>
    /\ id_out.plan_id = <<"p", "l", "a", "n", "_", "0", "1", "2", "_", "1", "0">>

\* C28 as stated: a parent id without a separator gives the sentinel as the
\* parent segment: goal_unkn_<n> for a session id, plan_000_<n> for a goal id.
C28_NoSeparatorGivesSentinel ==
    id_out # NoValue =>
        /\ (id_in.session_id # NoneId /\ \A i \in 1..Len(id_in.session_id) :
                                            id_in.session_id[i] # "_")
              => id_out.goal_id = Str_goal \o Str_unkn \o Sep
                                      \o FormatInt(id_in.sequence, 3)
        /\ (id_in.parent # NoneId /\ \A i \in 1..Len(id_in.parent) :
                                            id_in.parent[i] # "_")
              => id_out.parent_plan_id = Str_plan \o Str_000 \o Sep
                                      \o FormatInt(id_in.plan_sequence, 2)

(***************************************************************************)
(* Properties of the session store                                         *)
(***************************************************************************)
\* C22 as stated: the history of every session is the last
\* min(n, 2 * MAX_HISTORY) of the n messages appended to it since it was
\* created or cleared, whatever their roles and kinds.
C22_HistoryIsRecentSuffix ==
    \A s \in DOMAIN store_sessions :
        LET log == store_log[s]
            n == Len(log)
            kept == IF n < 2 * MAX_HISTORY THEN n ELSE 2 * MAX_HISTORY
        IN  store_sessions[s].conversation_history = SubSeq(log, n - kept + 1, n)

\* C23 as stated: the messages of a history are in the order in which they
\* were appended (content numbers the appends of a session).
C23_HistoryInAppendOrder ==
    \A s \in DOMAIN store_sessions :
        LET history == store_sessions[s].conversation_history
        IN  \A i, j \in 1..Len(history) :
                i < j => history[i].content < history[j].content

IsPrefix(a, b) == Len(a) <= Len(b) /\ SubSeq(b, 1, Len(a)) = a
\* s lost messages in this step
LostMessages(s) ==
    \/ s \notin DOMAIN store_sessions'
    \/ ~IsPrefix(store_sessions[s].conversation_history,
                 store_sessions'[s].conversation_history)
\* more than the timeout has passed since the last activity of s
Stale(s) == store_clock - store_sessions[s].last_active > SessionTimeout
StoreOpOn(s, ops) ==
    store_ret'.n # store_ret.n /\ store_ret'.op \in ops /\ store_ret'.session_id = s
\* this step is an add_message on s whose trim pass ran
TrimRan(s) ==
    /\ StoreOpOn(s, {"add_message"})
    /\ ~Stale(s)
    /\ Len(store_sessions[s].conversation_history) + 1 > 2 * MAX_HISTORY

\* C24 as stated: a session loses messages only in a step that is the trim
\* pass of an append or a clear.
C24_MessagesLeaveOnlyByTrimOrClear ==
    [][\A s \in DOMAIN store_sessions :
          LostMessages(s) => (TrimRan(s) \/ StoreOpOn(s, {"clear"}))]_vars

\* C24 amended: a session loses messages only in the trim pass of an append,
\* in a clear, or when get_or_create_session (called directly, by
\* add_message or by get_conversation_history) finds that more than
\* session_timeout seconds have passed since its last activity; in that case
\* the history is emptied before the operation goes on.
C24_MessagesLeaveByTrimClearOrExpiry ==
    [][\A s \in DOMAIN store_sessions :
          /\ LostMessages(s) =>
                \/ TrimRan(s)
                \/ StoreOpOn(s, {"clear"})
                \/ Stale(s) /\ StoreOpOn(s, {"get_or_create", "add_message",
                                              "get_history"})
          /\ (Stale(s) /\ StoreOpOn(s, {"get_or_create", "get_history"}))
                => store_sessions'[s].conversation_history = <<>>
          /\ (Stale(s) /\ StoreOpOn(s, {"add_message"}))
                => Len(store_sessions'[s].conversation_history) = 1
      ]_vars

\* a session with twenty messages was opened two seconds after its last
\* activity and came back with an empty history
C24_Witness ==
    /\ store_ret.op = "get_or_create"
    /\ store_ret.session_id = <<"s", "_", "a">>
    /\ store_clock = SessionTimeout + 1
    /\ Len(store_log[<<"s", "_", "a">>]) = 2 * MAX_HISTORY
    /\ store_sessions[<<"s", "_", "a">>].conversation_history = <<>>

\* C25 as stated: no session is stored under the empty session id.
C25_NoSessionUnderEmptyId == <<>> \notin DOMAIN store_sessions

\* the last min(n, Len(l)) entries of l
Suffix(l, n) == IF n >= Len(l) THEN l ELSE SubSeq(l, Len(l) - n + 1, Len(l))

\* C30 as stated: a read of the recent messages of an existing session with
\* limit >= 0 returns the last `limit` messages of the history (of the given
\* kind when a kind is given), at most `limit` of them, and leaves the
\* history as it was.
C30_GetRecentReturnsAtMostLimit ==
    [][\A s \in DOMAIN store_sessions :
          (StoreOpOn(s, {"get_recent", "get_history"}) /\ ~store_ret'.raised) =>
             LET history == store_sessions[s].conversation_history
                 of_kind == IF store_ret'.kind = NoType THEN history
                            ELSE WithType(history, store_ret'.kind)
             IN  /\ Len(store_ret'.value) <= store_ret'.limit
                 /\ store_ret'.value = Suffix(of_kind, store_ret'.limit)
                 /\ store_sessions'[s].conversation_history = history
      ]_vars

(***************************************************************************)
(* Properties of the correlation closer                                    *)
(***************************************************************************)
\* C21 as stated: _process_commands does not raise and writes one agent
\* event entry per status report, in order; the entry of a report whose
\* command id is bound joins the phase and the description of the bound
\* plan, the entry of any other report joins the phase and a text made from
\* the command type.
C21_OneEntryPerReport ==
    closer_out # NoValue =>
        LET reports == closer_in.last_commands
            out == closer_out.messages
        IN  /\ ~closer_out.raised
            /\ Len(out) = Len(reports)
            /\ \A i \in 1..Len(reports) :
                  LET info == get_plan_info_for_command(closer_in.mappings,
                                  closer_in.session_id, reports[i].id)
                  IN  /\ out[i].role = "agent" /\ out[i].msg_type = "event"
                      /\ out[i].content[1] = Title(reports[i].phase)
                      /\ info # NoInfo => out[i].content[3] = info.plan_description
                      /\ info = NoInfo =>
                            out[i].content[3] \in
                               {reports[i].type, "Place blocks",
                                "Create voxel type 'unknown'"}

(***************************************************************************)
(* Properties of the /events endpoint                                      *)
(***************************************************************************)
\* the entries request c has written to the history of its session
EntriesOf(c) ==
    LET Mine(m) == m.request = c
    IN  SelectSeq(Get(ev_history, ev_req[c].batch.session_id, <<>>), Mine)
Untagged(entries) ==
    [i \in 1..Len(entries) |->
        [role |-> entries[i].role, msg_type |-> entries[i].msg_type,
         content |-> entries[i].content, payload |-> entries[i].payload]]
BatchEntries(c) == process_event_batch(registry_mappings, ev_req[c].batch).messages
ExpectedReply(response) ==
    <<[role |-> "agent", msg_type |-> "chat", content |-> response.talk_to_player,
       payload |-> NoValue]>>
    \o (IF Len(response.plan) > 0
        THEN <<[role |-> "agent", msg_type |-> "event",
                content |-> PlanSummary(response.plan), payload |-> NoValue]>>
        ELSE <<>>)

\* the order of the entries of every request
RequestOrder ==
    \A c \in 1..MaxCalls :
        /\ ev_req[c].pc = "idle" => plan_calls[c].pc = "idle"
        /\ ev_req[c].pc # "idle" =>
              /\ plan_calls[c].pc # "idle" => ev_req[c].pc # "failed" \/ plan_calls[c].pc = "raised"
              /\ ev_req[c].pc \in {"planning", "failed"} =>
                    Untagged(EntriesOf(c)) = BatchEntries(c)
              /\ ev_req[c].pc = "answered" =>
                    /\ plan_calls[c].pc = "done"
                    /\ Untagged(EntriesOf(c)) =
                          BatchEntries(c) \o ExpectedReply(plan_calls[c].response)

\* a step of a planning call: only the goal sequence of its session may change
StageStep ==
    \A c \in 1..MaxCalls :
        plan_calls'[c] # plan_calls[c] =>
            /\ ev_history' = ev_history
            /\ registry_mappings' = registry_mappings
            /\ registry_approved_plans' = registry_approved_plans
            /\ \A s \in DOMAIN session_goal_sequences' :
                  s # plan_calls'[c].session_id =>
                     /\ s \in DOMAIN session_goal_sequences
                     /\ session_goal_sequences'[s] = session_goal_sequences[s]

\* C29: the entries of the batch are in the history before plan_async is
\* called; no step of plan_async changes the history or the registry, only the
\* goal sequence of its session; the talk_to_player entry, and after it the
\* plan summary when the plan is not empty, are written once plan_async has
\* returned, and not at all when it raised.
C29_RequestOrdering == [](RequestOrder) /\ [][StageStep]_vars

\* a request with batch entries was answered with a plan: talk, then summary
C29_Witness ==
    \E c \in 1..MaxCalls :
        /\ ev_req[c].pc = "answered"
        /\ Len(BatchEntries(c)) >= 2
        /\ plan_calls[c].response.plan # <<>>
        /\ Len(EntriesOf(c)) = Len(BatchEntries(c)) + 2
\* a request was answered with an empty plan: the talk entry alone
C29_WitnessNoPlan ==
    \E c \in 1..MaxCalls :
        /\ ev_req[c].pc = "answered"
        /\ plan_calls[c].response.plan = <<>>
        /\ Len(EntriesOf(c)) = Len(BatchEntries(c)) + 1

C32_AppendedMessageIsLast ==
    (store_ret.op = "add_message" /\ ~store_ret.raised) =>
        LET history == store_sessions[store_ret.session_id].conversation_history
            log == store_log[store_ret.session_id]
        IN  /\ history # <<>>
            /\ history[Len(history)] = log[Len(log)]

(***************************************************************************)
(* Properties of the converter: one entry per event                        *)
(***************************************************************************)
CountOf(l, Test(_)) == Len(SelectSeq(l, Test))
\* C33 as stated: process_event_batch writes one entry per event of the
\* batch: a user chat entry for every player_speak event and a player event
\* entry for every event of each other type.
C33_OneEntryPerEvent ==
    batch_out # NoValue =>
        LET IsChat(m) == m.role = "user" /\ m.msg_type = "chat"
            IsEvent(m) == m.role = "player" /\ m.msg_type = "event"
            NotSpeak(e) == ~IsSpeak(e)
        IN  /\ Len(batch_out.messages) = Len(batch_in.events)
            /\ CountOf(batch_out.messages, IsChat) = CountOf(batch_in.events, IsSpeak)
            /\ CountOf(batch_out.messages, IsEvent) = CountOf(batch_in.events, NotSpeak)
            /\ \A type \in EventTypes \ {"player_speak"} :
                  LET OfType(e) == e.type = type
                      ForType(m) == IsEvent(m) /\ m.payload.type = type
                  IN  CountOf(batch_out.messages, ForType)
                         = CountOf(batch_in.events, OfType)

(***************************************************************************)
(* Properties of the correlation closer: every accepted report             *)
(***************************************************************************)
\* C34 as stated: for every list of status reports the inbound model accepts
\* (each phase pending, done, failed or cancelled, or no phase; command id
\* bound or not) _process_commands does not raise and has written an entry
\* for every report.
C34_NoReportRaises ==
    closer_out # NoValue =>
        /\ ~closer_out.raised
        /\ \A i \in 1..Len(closer_in.last_commands) :
              /\ i <= Len(closer_out.messages)
              /\ closer_out.messages[i].payload.phase = closer_in.last_commands[i].phase
              /\ closer_out.messages[i].payload.command_type
                    = closer_in.last_commands[i].type

(***************************************************************************)
(* Properties of clearing: the goal sequence                               *)
(***************************************************************************)
\* the clear covers session s
Covers(clear, s) == clear.all \/ clear.session_id = s

\* C35: for every clear (of one session or of all), every goal id minted for
\* a session it covers after the clear differs from every goal id minted for
\* that session before it.
C35_ClearKeepsGoalSequence ==
    \A k \in 1..Len(ep_clears) :
        \A i \in 1..ep_clears[k].minted :
            \A j \in (ep_clears[k].minted + 1)..Len(goal_log) :
                (goal_log[i].session_id = goal_log[j].session_id
                 /\ Covers(ep_clears[k], goal_log[i].session_id)) =>
                    new_goal_id(goal_log[i].session_id, goal_log[i].value)
                       # new_goal_id(goal_log[j].session_id, goal_log[j].value)

\* a stored session with a minted goal was cleared and a goal was minted for
\* it afterwards
C35_Witness ==
    \E k \in 1..Len(ep_clears) :
        /\ ep_clears[k].stored /\ ~ep_clears[k].all
        /\ \E i \in 1..ep_clears[k].minted :
              \E j \in (ep_clears[k].minted + 1)..Len(goal_log) :
                 /\ goal_log[i].session_id = ep_clears[k].session_id
                 /\ goal_log[j].session_id = ep_clears[k].session_id
\* the same after a clear of all sessions
C35_WitnessAll ==
    \E k \in 1..Len(ep_clears) :
        /\ ep_clears[k].stored /\ ep_clears[k].all
        /\ \E i \in 1..ep_clears[k].minted :
              \E j \in (ep_clears[k].minted + 1)..Len(goal_log) :
                 goal_log[i].session_id = goal_log[j].session_id

(***************************************************************************)
(* Properties of the registry: clear and isolation                         *)
(***************************************************************************)
\* C36: a clear_session_mappings on s leaves s without a mapping; while s has
\* no mapping, and until register_plan_permission is called for s, every
\* lookup for s is absent, and a map_command_to_plan for s returns false and
\* leaves the registry as it was.
C36_NothingObservableAfterClear ==
    [][\A s \in SessionIds :
          /\ RegOpOn(s, {"clear"}) => s \notin DOMAIN registry_mappings'
          /\ (s \notin DOMAIN registry_mappings /\ ~RegOpOn(s, {"register"})) =>
                /\ s \notin DOMAIN registry_mappings'
                /\ \A c \in AllCommandIds :
                      get_plan_info_for_command(registry_mappings', s, c) = NoInfo
                /\ RegOpOn(s, {"lookup"}) => reg_ret'.info = NoInfo
                /\ RegOpOn(s, {"bind"}) =>
                      /\ ~reg_ret'.ok
                      /\ registry_mappings' = registry_mappings
                      /\ registry_approved_plans' = registry_approved_plans]_vars

\* a session with a bound command was cleared, and a bind to one of its
\* approved plans was then refused
C36_Witness ==
    /\ reg_ret.op = "bind" /\ ~reg_ret.ok
    /\ reg_ret.session_id \notin DOMAIN registry_mappings
    /\ reg_ret.session_id \in DOMAIN registry_approved_plans
    /\ \E i \in 1..Len(registry_approved_plans[reg_ret.session_id]) :
          registry_approved_plans[reg_ret.session_id][i].id = reg_ret.plan_id
    /\ \E b \in reg_ret.bound : b[1] = reg_ret.session_id

\* C37: a register, bind or clear on one session leaves the result of lookup
\* unchanged for every command id in every other session, and a bind that
\* returns false leaves the whole registry unchanged.
C37_SessionsIsolated ==
    [][\A a \in SessionIds :
          /\ RegOpOn(a, {"register", "bind", "clear"}) =>
                \A b \in SessionIds \ {a} : \A c \in AllCommandIds :
                    get_plan_info_for_command(registry_mappings', b, c)
                       = get_plan_info_for_command(registry_mappings, b, c)
          /\ (RegOpOn(a, {"bind"}) /\ ~reg_ret'.ok) =>
                /\ registry_mappings' = registry_mappings
                /\ registry_approved_plans' = registry_approved_plans]_vars

\* a command was bound in one session while another session holds a binding
C37_Witness ==
    /\ reg_ret.op = "bind" /\ reg_ret.ok
    /\ \E b \in SessionIds \ {reg_ret.session_id} :
          /\ b \in DOMAIN registry_mappings
          /\ DOMAIN registry_mappings[b].mappings # {}
          /\ reg_ret.command_id \notin DOMAIN registry_mappings[b].mappings
\* a bind was refused for a plan id that is not approved in a registered session
C37_WitnessRefused ==
    /\ reg_ret.op = "bind" /\ ~reg_ret.ok
    /\ reg_ret.session_id \in DOMAIN registry_mappings
    /\ reg_ret.session_id \in DOMAIN registry_approved_plans

(***************************************************************************)
(* Properties of the conversion: duplicated local ids                      *)
(***************************************************************************)
\* C38: the ids of the steps of a resolved plan are pairwise distinct, also
\* when local ids repeat; for every local id there is one step of the
\* response whose resolved id every kept reference to that local id becomes.
C38_ResolvedIdsDistinct ==
    conv_out # NoValue =>
        LET local == conv_in.simple_response.plan
            full == conv_out.plan
        IN  /\ \A i, j \in 1..Len(full) : i # j => full[i].id # full[j].id
            /\ \A l \in LocalIdsOf(local) :
                  \E j \in 1..Len(local) :
                     /\ local[j].id = l
                     /\ \A i \in 1..Len(local) :
                           LET ids == local[i].depends_on.ids
                               res == full[i].depends_on.ids
                               kept == KeptPositions(ids, local)
                           IN  /\ Len(res) = Cardinality(kept)
                               /\ \A m \in 1..Len(res) :
                                     ids[NthOf(kept, m)] = l => res[m] = full[j].id

\* two steps with the same local id were resolved, and a dependency on that
\* local id became the id of the second of them
C38_Witness ==
    /\ conv_out # NoValue
    /\ Len(conv_out.plan) = 2
    /\ conv_in.simple_response.plan[1].id = conv_in.simple_response.plan[2].id
    /\ conv_out.plan[1].id # conv_out.plan[2].id
    /\ conv_in.simple_response.plan[1].depends_on.ids
          = <<conv_in.simple_response.plan[1].id>>
    /\ conv_out.plan[1].depends_on.ids = <<conv_out.plan[2].id>>

(***************************************************************************)
(* Properties of the enrichment: what it leaves alone                      *)
(***************************************************************************)
\* what the enrichment leaves of the commands of a reply
EnrichmentFrame ==
    enrich_out # NoValue =>
        \A i \in 1..Len(enrich_out.commands) :
            LET reply == enrich_in.simple_commands[i]
                out == enrich_out.commands[i]
            IN  /\ reply.type \notin {"place_block", "destroy_block"} =>
                      out.params = reply.params
                /\ (Present(reply.params.voxel_id)
                     /\ reply.params.voxel_id[1] \notin UnusableIds) =>
                      out.params.voxel_id = reply.params.voxel_id
                /\ (Present(reply.params.voxel_ids)
                     /\ Len(reply.params.voxel_ids[1]) > 0) =>
                      out.params.voxel_ids = reply.params.voxel_ids

\* C39: the enrichment leaves the params of a command that is neither
\* place_block nor destroy_block as they are, leaves a usable voxel id and a
\* non-empty id list of the reply as they are whatever id the snapshot has for
\* the name, and the step that builds the commands leaves the snapshot (the
\* approval with its voxel definitions) as it is.
C39_EnrichmentFrame ==
    [](EnrichmentFrame)
    /\ [][enrich_out' # enrich_out =>
             enrich_in'.permission.game_state = enrich_in.permission.game_state]_vars

\* a place_block with the name Dirt and the id 7 kept the id 7 although the
\* snapshot has another id for dirt and took the default count, and a move_to
\* kept its params
C39_Witness ==
    /\ enrich_out # NoValue
    /\ enrich_in.permission.game_state = Snapshot
    /\ Len(enrich_in.simple_commands) = 2
    /\ enrich_in.simple_commands[1] = PlaceCommand(<<"Dirt">>, <<"7">>, Absent)
    /\ enrich_in.simple_commands[2].type = "move_to"
    /\ enrich_out.commands[1].params.voxel_id = <<"7">>
    /\ enrich_out.commands[1].params.count = <<1>>
    /\ enrich_out.commands[2].params = enrich_in.simple_commands[2].params

====
